---- MODULE Spec2Model ----
(***************************************************************************)
(* Article synchronization layer of the admin UI                           *)
(* (frontend/src/services/articleService.ts), the list views and the edit *)
(* form that use it (frontend/src/pages), and the article routes of the    *)
(* server                                                                  *)
(* (backend/routes/articleRoutes.js over backend/models/articleModel.js).  *)
(*                                                                         *)
(* Every exported operation of the service is an async function.  A call   *)
(* is modelled as a small process: one action per run-to-completion piece  *)
(* of the function (from one await to the next), with the network and the  *)
(* timers as the environment that settles the awaited promises.  The       *)
(* service keeps no state between calls, so each operation has its own     *)
(* variables and its own specification.                                    *)
(*                                                                         *)
(* Strings that the code builds with template literals are modelled as     *)
(* sequences of text fragments; concatenation is \o and                    *)
(* String.prototype.includes is the contiguous-subsequence test Includes.  *)
(***************************************************************************)
EXTENDS Integers, Sequences, FiniteSets, TLC

VARIABLES
    \* ---- updateArticle (one call)
    uPc,        \* "idle" | "inflight" | "backoff" | "json" | "done"
    uId,        \* the id argument
    retries,    \* let retries
    response,   \* let response: NoResponse or the last Response received
    lastError,  \* let lastError: NoError or an error
    uTimer,     \* delay (ms) of the pending setTimeout, 0 when none
    uInFlight,  \* PUT requests sent and not yet settled
    uHist,      \* what the network answered to each PUT so far, in order
    uDelays,    \* the setTimeout delays waited so far, in order
    uSentIn,    \* for each PUT, where the call stood when it was sent
    uOutcome,   \* NoOutcome, or how the call returned / what it threw
    \* ---- build configuration (import.meta.env)
    envDEV,     \* import.meta.env.DEV
    envMODE,    \* import.meta.env.MODE
    \* ---- getArticleById (one call)
    gPc,        \* "idle" | "racing" | "json" | "done"
    gId,        \* the id argument
    gSilent,    \* TRUE when the server never answers this call's GET
    gFetch,     \* NoResponse while the GET is pending, then what settled it
    gTimer,     \* delay (ms) of the pending timeout timer, 0 when none
    gFired,     \* TRUE once the timeout timer has fired
    gError,     \* the error the catch clause caught, NoError if none
    gOutcome,   \* NoGetOutcome, or how the call returned / what it threw
    \* ---- deleteArticle (one call)
    dPc,        \* "idle" | "primary" | "text" | "alt" | "done"
    dId,        \* the id argument
    dResponse,  \* const response: what the DELETE was answered with
    dErrorMessage, \* const errorMessage, JUndef until it is computed
    dRequests,  \* the requests the call has sent, in order
    dAltResult, \* what settled the alternate POST, DelPending if nothing
    dOutcome,   \* NoDelOutcome, or the call's result
    \* ---- updateArticleStatus (one call)
    sPc,        \* "idle" | "inflight" | "json" | "done"
    sId,        \* the id argument
    sStatus,    \* the status argument
    sResponse,  \* const response
    sRequests,  \* the requests the call has sent, in order
    sOutcome,   \* NoOutcome, or how the call returned / what it threw
    \* ---- normalizeArticleData (one call)
    nX,         \* the article the response is about
    nWrap,      \* how the response wraps it
    nData,      \* the argument: the response
    nNow,       \* what the clock read during the call
    nOut,       \* NoNormOutcome, or what the call returned / threw
    \* ---- a list view (one mounted component)
    lView,      \* which view is mounted, "none" before
    lPc,        \* "unmounted" | "fetching" | "ready" | "deleting"
    lArticles,  \* const [articles, setArticles]
    lLoading,   \* const [loading, setLoading]
    lError,     \* const [error, setError]: NoError for null
    lNotification, \* const [notification, setNotification], or the toast
    lId,        \* the id argument of the running handleDeleteArticle
    lSnapshot,  \* the articles the running handler closed over
    lLast,      \* bookkeeping: the last delete action
    lStatus,    \* the newStatus argument of the running handleStatusChange
    \* ---- the article store (the server)
    aStore,     \* the articles collection, in insertion order
    aClock,     \* the instant the server's clock shows
    aReqs,      \* the handlers' call states, one per request being handled
    aTraffic,   \* the requests clients send
    \* ---- a client session (calls of the service, one after another)
    ePc,        \* "idle" | "waiting"
    eCall,      \* the call that is waiting for its answer
    eLog,       \* the calls made so far and how each ended
    eIds,       \* the articleids createArticle has assigned
    \* ---- the edit form (EditArticle)
    fPc,        \* "unmounted" | "fetching" | "ready" | "saving" | "left"
    fArticleId, \* useParams().id: NoArticleId on the route without :id
    fForm,      \* const [formData, setFormData]
    fPayload    \* the articleData of the last saveArticle, NoPayload if none

uVars == <<uPc, uId, retries, response, lastError, uTimer, uInFlight,
           uHist, uDelays, uSentIn, uOutcome>>

envVars == <<envDEV, envMODE>>

gVars == <<gPc, gId, gSilent, gFetch, gTimer, gFired, gError, gOutcome>>

dVars == <<dPc, dId, dResponse, dErrorMessage, dRequests, dAltResult,
           dOutcome>>

sVars == <<sPc, sId, sStatus, sResponse, sRequests, sOutcome>>

nVars == <<nX, nWrap, nData, nNow, nOut>>

lVars == <<lView, lPc, lArticles, lLoading, lError, lNotification, lId,
           lSnapshot, lLast, lStatus>>

aVars == <<aStore, aClock, aReqs, aTraffic>>

eVars == <<ePc, eCall, eLog, eIds>>

fVars == <<fPc, fArticleId, fForm, fPayload>>

vars == <<uVars, envVars, gVars, dVars, sVars, nVars, lVars, aVars, eVars,
          fVars>>

\* What a call of each operation leaves alone: the other operations' calls
\* and the build configuration.
uRest == <<envVars, gVars, dVars, sVars, nVars, lVars, aVars, eVars,
          fVars>>
gRest == <<envVars, uVars, dVars, sVars, nVars, lVars, aVars, eVars,
          fVars>>
dRest == <<envVars, uVars, gVars, sVars, nVars, lVars, aVars, eVars,
          fVars>>
sRest == <<envVars, uVars, gVars, dVars, nVars, lVars, aVars, eVars,
          fVars>>
nRest == <<envVars, uVars, gVars, dVars, sVars, lVars, aVars, eVars,
          fVars>>
lRest == <<envVars, uVars, gVars, dVars, sVars, nVars, aVars, eVars,
          fVars>>
aRest == <<envVars, uVars, gVars, dVars, sVars, nVars, lVars, eVars,
          fVars>>
\* A session acts on the store as well.
eRest == <<envVars, uVars, gVars, dVars, sVars, nVars, lVars, fVars>>
\* A status change in the list view runs updateArticleStatus.
lsRest == <<envVars, uVars, gVars, dVars, nVars, aVars, eVars, fVars>>
fRest == <<envVars, uVars, gVars, dVars, sVars, nVars, lVars, aVars, eVars>>

----------------------------------------------------------------------------
(* Text *)

\* String.prototype.includes on fragment sequences.
Includes(s, sub) ==
    \E i \in 0..(Len(s) - Len(sub)) :
        \A j \in 1..Len(sub) : s[i + j] = sub[j]

\* Array.prototype.join(',') of fragment sequences.
RECURSIVE JoinText(_)
JoinText(a) ==
    IF a = <<>> THEN <<>>
    ELSE IF Len(a) = 1 THEN a[1]
    ELSE a[1] \o <<",">> \o JoinText(Tail(a))

----------------------------------------------------------------------------
(* JavaScript values *)

JUndef   == [t |-> "undefined"]
JNull    == [t |-> "null"]
JStr(s)  == [t |-> "string", s |-> s]      \* s: fragments, <<>> is ''
JNum(n)  == [t |-> "number", n |-> n]
JArr(a)  == [t |-> "array", a |-> a]       \* a: sequence of values
JBool(b) == [t |-> "boolean", b |-> b]
JObj(o)  == [t |-> "object", o |-> o]      \* o: record of values

\* ToBoolean
Truthy(v) ==
    CASE v.t = "undefined" -> FALSE
      [] v.t = "null"      -> FALSE
      [] v.t = "string"    -> v.s # <<>>
      [] v.t = "number"    -> v.n # 0
      [] v.t = "boolean"   -> v.b
      [] OTHER             -> TRUE

\* a || b
OrElse(a, b) == IF Truthy(a) THEN a ELSE b

\* v.k throws a TypeError exactly when v is null or undefined.
Readable(v) == v.t \notin {"undefined", "null"}

\* v.k for a readable v: own properties of objects only (no model key is
\* a property of String, Number or Array).
Prop(v, k) ==
    IF v.t = "object" /\ k \in DOMAIN v.o THEN v.o[k] ELSE JUndef

\* Array.isArray(v)
IsArray(v) == v.t = "array"

\* typeof v.includes === 'function': strings and arrays have the method.
HasIncludes(v) == v.t \in {"string", "array"}

\* v.includes(sub) for a string sub: substring test on strings, element
\* test on arrays.
JsIncludes(v, sub) ==
    IF v.t = "string" THEN Includes(v.s, sub)
    ELSE \E i \in 1..Len(v.a) : v.a[i] = JStr(sub)

\* `${v}` for the values that reach a template literal in the model.
TemplateText(v) ==
    CASE v.t = "string" -> v.s
      [] v.t = "number" -> <<ToString(v.n)>>
      [] v.t = "array"  ->
            JoinText([i \in 1..Len(v.a) |->
                        IF v.a[i].t = "string" THEN v.a[i].s ELSE <<"?">>])
      [] OTHER -> <<"[object Object]">>

----------------------------------------------------------------------------
(* Network *)

Ids == {"A1", "3f2a9c1e-77b0-4d2e-9a61-5c8e0f1b2d34"}

\* HTTP status codes the model's server may answer with.
StatusCodes == {200, 400, 404, 500}

StatusText(s) ==
    CASE s = 200 -> "OK"
      [] s = 400 -> "Bad Request"
      [] s = 404 -> "Not Found"
      [] s = 500 -> "Internal Server Error"

\* Messages of the TypeError a rejected fetch carries.
FaultMessages == {<<"Failed to fetch">>, <<"Load failed">>}

\* What settles a fetch promise: a Response (any status), or a rejection.
\* bodyOk tells whether response.json() will parse the body.
Responded(s, b) ==
    [kind |-> "response", status |-> s, bodyOk |-> b, message |-> <<>>]
Faulted(m) ==
    [kind |-> "fault", status |-> 0, bodyOk |-> FALSE, message |-> m]

NetOutcomes ==
    {Responded(s, b) : s \in StatusCodes, b \in BOOLEAN}
        \cup {Faulted(m) : m \in FaultMessages}

\* Response.ok
Ok(r) == r.kind = "response" /\ r.status >= 200 /\ r.status <= 299

NoResponse == [kind |-> "none", status |-> 0, bodyOk |-> FALSE, message |-> <<>>]
NoError    == [set |-> FALSE, message |-> <<>>]
MkError(m) == [set |-> TRUE, message |-> m]

NoOutcome      == [kind |-> "none", message |-> <<>>]
Returned(m)    == [kind |-> "return", message |-> m]
Thrown(m)      == [kind |-> "throw", message |-> m]

\* Message of the SyntaxError response.json() rejects with.
JsonErrorMessage == <<"Unexpected token < in JSON at position 0">>

----------------------------------------------------------------------------
(* updateArticle *)

InitialRetries == 3

\* The loop condition off by one: the loop also runs at retries = 0.
UpdateLoopCondOff(r) == r >= 0

\* while (retries > 0)
UpdateLoopCond(r) == r > 0

\* setTimeout(resolve, 1000 * (4 - retries)), evaluated after retries--
BackoffDelay(r) == 1000 * (4 - r)

\* new Error(`Server returned ${response.status}: ${response.statusText}`)
ServerReturned(r) ==
    <<"Server returned ", ToString(r.status), ": ", StatusText(r.status)>>

\* catch (error) { throw new Error(`Failed to update article: ${error.message}`) }
UpdateFailure(m) == Thrown(<<"Failed to update article: ">> \o m)

\* if (!response || !response.ok) throw lastError || new Error(...)
\* reached when the loop ends without break
UpdateGiveUp(err) ==
    UpdateFailure(IF err.set THEN err.message
                  ELSE <<"Failed to update article after multiple attempts">>)

\* Where the call stands when it sends a PUT: its position, the number of
\* PUTs settled, the number of backoff delays started, the PUTs in flight.
SendPoint ==
    [pc |-> uPc, settled |-> Len(uHist), waited |-> Len(uDelays),
     inflight |-> uInFlight]

\* The loop body's fetch(`/api/articles/${id}`, {method: 'PUT', ...})
UpdateSendPut ==
    /\ uInFlight' = uInFlight + 1
    /\ uSentIn' = Append(uSentIn, SendPoint)
    /\ uPc' = "inflight"

\* updateArticle(id, articleData) up to its first await: the loop is entered
\* (retries = 3 > 0) and the first PUT is sent.
UpdateStart ==
    /\ uPc = "idle"
    /\ \E id \in Ids : uId' = id
    /\ retries' = InitialRetries
    /\ response' = NoResponse
    /\ lastError' = NoError
    /\ UpdateSendPut
    /\ UNCHANGED <<uTimer, uHist, uDelays, uOutcome>>
    /\ UNCHANGED uRest

\* The loop body without the await on the backoff timer: the next PUT is
\* sent at once.
UpdateAfterFailureNoWait(err) ==
    /\ lastError' = err
    /\ retries' = retries - 1
    /\ IF UpdateLoopCond(retries - 1)
       THEN /\ uDelays' = Append(uDelays, BackoffDelay(retries - 1))
            /\ uTimer' = 0
            /\ uInFlight' = uInFlight
            /\ uSentIn' = Append(uSentIn, SendPoint)
            /\ uPc' = "inflight"
            /\ uOutcome' = uOutcome
       ELSE /\ uPc' = "done"
            /\ uOutcome' = UpdateGiveUp(err)
            /\ uInFlight' = uInFlight - 1
            /\ UNCHANGED <<uTimer, uDelays, uSentIn>>

\* The loop body after a failed attempt: lastError is set, retries--, and
\* either the backoff timer is started or the loop ends and the call throws.
UpdateAfterFailure(err) ==
    /\ lastError' = err
    /\ retries' = retries - 1
    /\ uInFlight' = uInFlight - 1
    /\ IF UpdateLoopCond(retries - 1)
       THEN /\ uTimer' = BackoffDelay(retries - 1)
            /\ uDelays' = Append(uDelays, BackoffDelay(retries - 1))
            /\ uPc' = "backoff"
            /\ uOutcome' = uOutcome
       ELSE /\ uPc' = "done"
            /\ uOutcome' = UpdateGiveUp(err)
            /\ UNCHANGED <<uTimer, uDelays>>
    /\ UNCHANGED uSentIn

\* The awaited fetch settles with outcome o.
UpdatePutSettles ==
    /\ uPc = "inflight"
    /\ \E o \in NetOutcomes :
        /\ uHist' = Append(uHist, o)
        /\ IF o.kind = "fault"
           THEN \* catch (error) { lastError = error }
                /\ response' = response
                /\ UpdateAfterFailure(MkError(o.message))
           ELSE /\ response' = o
                /\ IF Ok(o)
                   THEN \* break; response.ok holds; await response.json()
                        /\ uPc' = "json"
                        /\ uInFlight' = uInFlight - 1
                        /\ UNCHANGED <<retries, lastError, uTimer, uDelays,
                                       uSentIn, uOutcome>>
                   ELSE UpdateAfterFailure(MkError(ServerReturned(o)))
    /\ UNCHANGED uId
    /\ UNCHANGED uRest

\* The backoff timer fires: the loop condition holds, the next PUT is sent.
UpdateBackoffElapsed ==
    /\ uPc = "backoff"
    /\ uTimer > 0
    /\ uTimer' = 0
    /\ UpdateSendPut
    /\ UNCHANGED <<uId, retries, response, lastError, uHist, uDelays, uOutcome>>
    /\ UNCHANGED uRest

\* await response.json() settles.
UpdateJsonSettles ==
    /\ uPc = "json"
    /\ uPc' = "done"
    /\ uOutcome' = IF response.bodyOk
                   THEN Returned(<<"article ", uId>>)
                   ELSE UpdateFailure(JsonErrorMessage)
    /\ UNCHANGED <<uId, retries, response, lastError, uTimer, uInFlight,
                   uHist, uDelays, uSentIn>>
    /\ UNCHANGED uRest

InitUpdate ==
    /\ uPc = "idle"
    /\ uId = "A1"
    /\ retries = 0
    /\ response = NoResponse
    /\ lastError = NoError
    /\ uTimer = 0
    /\ uInFlight = 0
    /\ uHist = <<>>
    /\ uDelays = <<>>
    /\ uSentIn = <<>>
    /\ uOutcome = NoOutcome

NextUpdate ==
    \/ UpdateStart
    \/ UpdatePutSettles
    \/ UpdateBackoffElapsed
    \/ UpdateJsonSettles

----------------------------------------------------------------------------
(* Claims about updateArticle *)

AllFailed(h) == \A i \in 1..Len(h) : ~Ok(h[i])

\* The error the call records for a failed attempt that settled with o.
AttemptErrorMessage(o) ==
    IF o.kind = "fault" THEN o.message ELSE ServerReturned(o)

\* C1: one updateArticle call issues at most 3 PUT attempts, issues no
\* attempt after the first attempt that got a 2xx response, gives up only
\* after 3 failed attempts, and then throws an error whose message carries
\* the message of the last attempt's error.
C1_UpdateBoundedRetry ==
    /\ Len(uSentIn) <= 3
    /\ \A i \in 1..Len(uHist) :
          Ok(uHist[i]) => (i = Len(uHist) /\ Len(uSentIn) = i)
    /\ (uPc = "done" /\ AllFailed(uHist)) =>
          /\ Len(uHist) = 3
          /\ uOutcome.kind = "throw"
          /\ Includes(uOutcome.message, AttemptErrorMessage(uHist[3]))

C1_Witness ==
    /\ uPc = "done"
    /\ Len(uHist) = 3
    /\ AllFailed(uHist)
    /\ uHist[2].kind = "response"
    /\ uHist[3].kind = "fault"
    /\ uOutcome.kind = "throw"

\* C2: when the server fails the first two PUT attempts and accepts the
\* third, the call succeeds and the delays waited are 1000 ms before
\* attempt 2 and 2000 ms before attempt 3.
C2_BackoffDelays ==
    (/\ uPc = "done"
     /\ Len(uHist) = 3
     /\ ~Ok(uHist[1]) /\ ~Ok(uHist[2])
     /\ Ok(uHist[3]) /\ uHist[3].bodyOk)
        => (uOutcome.kind = "return" /\ uDelays = <<1000, 2000>>)

\* C3: the attempts of one call are strictly sequential: at most one PUT is
\* in flight, and attempt n+1 is sent only when attempt n has settled and
\* the backoff timer started after it has fired.
C3_SequentialAttempts ==
    /\ uInFlight <= 1
    /\ \A i \in 1..Len(uSentIn) :
          /\ uSentIn[i].inflight = 0
          /\ uSentIn[i].settled = i - 1
          /\ i > 1 => (uSentIn[i].pc = "backoff" /\ uSentIn[i].waited = i - 1)
    /\ uPc = "backoff" => (uInFlight = 0 /\ uTimer > 0)

C3_Witness ==
    /\ Len(uSentIn) = 3
    /\ uInFlight = 1
    /\ Len(uHist) = 2

----------------------------------------------------------------------------
(* Build configuration *)

Modes == {"development", "production", "test"}

InitEnv ==
    /\ envDEV \in BOOLEAN
    /\ envMODE \in Modes

\* import.meta.env?.DEV || import.meta.env?.MODE === 'development'
IsDevelopment == envDEV \/ envMODE = "development"

----------------------------------------------------------------------------
(* getArticleById *)

TimeoutMs == 15000

\* new Error('Request timeout after 15 seconds')
TimeoutMessage == <<"Request timeout after 15 seconds">>

\* The body of a GET response: "json" parses, "garbage" makes
\* response.json() reject, "stalled" never finishes arriving.
BodyModes == {"json", "garbage", "stalled"}

GetResponded(s, b) ==
    [kind |-> "response", status |-> s, bodyOk |-> (b = "json"),
     message |-> <<>>, body |-> b]
GetFaulted(m) ==
    [kind |-> "fault", status |-> 0, bodyOk |-> FALSE, message |-> m,
     body |-> "garbage"]
GetPending ==
    [kind |-> "none", status |-> 0, bodyOk |-> FALSE, message |-> <<>>,
     body |-> "garbage"]

GetNetOutcomes ==
    {GetResponded(s, b) : s \in StatusCodes, b \in BodyModes}
        \cup {GetFaulted(m) : m \in FaultMessages}

\* id.substring(0, 8)
Substring8(id) ==
    IF id = "3f2a9c1e-77b0-4d2e-9a61-5c8e0f1b2d34" THEN "3f2a9c1e" ELSE id

NoArticle == [source |-> "none"]

\* The article the server's JSON body parses to.
ServerArticle(id) == [source |-> "server", articleid |-> id]

\* const mockArticle: Article = {...}
InlineMockArticle(id) ==
    [source      |-> "mock",
     articleid   |-> id,
     title       |-> <<"Mock Article (ID: ", Substring8(id), "...)">>,
     subtitle    |-> <<"This is mock data provided due to API fetch failure">>,
     content     |-> <<"This mock content is displayed because the API request failed. ",
                       "Check the console for detailed error information.">>,
     author      |-> <<"System">>,
     designation |-> <<"Automated Fallback">>,
     images      |-> <<>>,
     subtopics   |-> <<"Error Loading Article">>,
     subcontent  |-> <<"The actual article could not be loaded. This is fallback content.">>,
     keywords    |-> <<"error", "mock", "fallback">>,
     publishedDate |-> "now",
     status      |-> "draft"]

NoGetOutcome      == [kind |-> "none", message |-> <<>>, article |-> NoArticle]
GetReturned(a)    == [kind |-> "return", message |-> <<>>, article |-> a]
GetThrown(m)      == [kind |-> "throw", message |-> m, article |-> NoArticle]

\* The catch clause without the development check.
GetCatchAlwaysMock(err) ==
    /\ gError' = err
    /\ gPc' = "done"
    /\ gOutcome' = GetReturned(InlineMockArticle(gId))

\* catch (error) {...}: mock data in development, otherwise
\* throw new Error(`Failed to fetch article: ${error.message || 'Unknown error'}`)
GetCatch(err) ==
    /\ gError' = err
    /\ gPc' = "done"
    /\ gOutcome' =
         IF IsDevelopment
         THEN GetReturned(InlineMockArticle(gId))
         ELSE GetThrown(<<"Failed to fetch article: ">> \o
                         (IF err.message # <<>> THEN err.message
                          ELSE <<"Unknown error">>))

\* getArticleById(id) up to its first await: the timeout timer is started,
\* the GET is sent, and the call awaits Promise.race of the two.
GetStart ==
    /\ gPc = "idle"
    /\ \E id \in Ids : gId' = id
    /\ gSilent' \in BOOLEAN
    /\ gTimer' = TimeoutMs
    /\ gPc' = "racing"
    /\ UNCHANGED <<gFetch, gFired, gError, gOutcome>>
    /\ UNCHANGED gRest

\* The fetch promise settles.  While the race is undecided the call resumes
\* with it; once the race is decided the settlement is ignored.
GetFetchSettles ==
    /\ gPc # "idle"
    /\ gFetch = GetPending
    /\ ~gSilent
    /\ \E o \in GetNetOutcomes :
        /\ gFetch' = o
        /\ IF gPc # "racing"
           THEN UNCHANGED <<gPc, gError, gOutcome>>
           ELSE IF o.kind = "fault"
           THEN GetCatch(MkError(o.message))
           ELSE IF ~Ok(o)
           THEN \* throw new Error(`Server returned ...`)
                GetCatch(MkError(ServerReturned(o)))
           ELSE \* await response.json()
                /\ gPc' = "json"
                /\ UNCHANGED <<gError, gOutcome>>
    /\ UNCHANGED <<gId, gSilent, gTimer, gFired>>
    /\ UNCHANGED gRest

\* The timer firing with timeoutPromise left out of the race.
GetTimerIgnored ==
    /\ gTimer > 0
    /\ gTimer' = 0
    /\ gFired' = TRUE
    /\ UNCHANGED <<gPc, gError, gOutcome, gId, gSilent, gFetch>>
    /\ UNCHANGED gRest

\* The timeout timer fires and rejects timeoutPromise.  While the race is
\* undecided the call resumes in its catch clause; the timer is never
\* cleared, so it also fires after the race was decided, without effect.
GetTimerFires ==
    /\ gTimer > 0
    /\ gTimer' = 0
    /\ gFired' = TRUE
    /\ IF gPc = "racing"
       THEN GetCatch(MkError(TimeoutMessage))
       ELSE UNCHANGED <<gPc, gError, gOutcome>>
    /\ UNCHANGED <<gId, gSilent, gFetch>>
    /\ UNCHANGED gRest

\* await response.json() settles (a stalled body never does).
GetJsonSettles ==
    /\ gPc = "json"
    /\ gFetch.body # "stalled"
    /\ IF gFetch.bodyOk
       THEN /\ gPc' = "done"
            /\ gOutcome' = GetReturned(ServerArticle(gId))
            /\ UNCHANGED gError
       ELSE GetCatch(MkError(JsonErrorMessage))
    /\ UNCHANGED <<gId, gSilent, gFetch, gTimer, gFired>>
    /\ UNCHANGED gRest

InitGet ==
    /\ gPc = "idle"
    /\ gId = "A1"
    /\ gSilent = FALSE
    /\ gFetch = GetPending
    /\ gTimer = 0
    /\ gFired = FALSE
    /\ gError = NoError
    /\ gOutcome = NoGetOutcome

NextGet ==
    \/ GetStart
    \/ GetFetchSettles
    \/ GetTimerFires
    \/ GetJsonSettles

----------------------------------------------------------------------------
(* Claims about getArticleById *)

\* C4: a getArticleById call against a server that never responds does not
\* hang: the 15-second timer fires and the call completes with the
\* timeout-triggered outcome, the mock fallback in development mode and a
\* thrown error carrying the timeout message otherwise.
C4_GetTimesOut ==
    (gPc = "racing" /\ gSilent) ~>
        (/\ gPc = "done"
         /\ gFired
         /\ gError = MkError(TimeoutMessage)
         /\ IF IsDevelopment
            THEN gOutcome.kind = "return" /\ gOutcome.article.source = "mock"
            ELSE gOutcome.kind = "throw"
                   /\ Includes(gOutcome.message, TimeoutMessage))

C4_Witness ==
    /\ gPc = "done"
    /\ gSilent
    /\ gFired
    /\ gError = MkError(TimeoutMessage)
    /\ gOutcome.kind = "throw"

\* C5: on every failure of getArticleById (timeout, non-2xx status, network
\* fault) the call returns the mock fallback article and does not throw in
\* development mode, and throws a descriptive error and returns no mock
\* content in production mode; mock content is returned on failure only.
C5_GetFailurePolicy ==
    /\ (gPc = "done" /\ gError.set) =>
          IF IsDevelopment
          THEN gOutcome.kind = "return" /\ gOutcome.article.source = "mock"
          ELSE /\ gOutcome.kind = "throw"
               /\ gOutcome.article = NoArticle
               /\ Includes(gOutcome.message, <<"Failed to fetch article: ">>)
               /\ Includes(gOutcome.message, gError.message)
    /\ (gPc = "done" /\ ~gError.set) =>
          gOutcome.kind = "return" /\ gOutcome.article.source = "server"
    /\ gError.set => gPc = "done"
    /\ (gFired /\ gFetch = GetPending) => gError = MkError(TimeoutMessage)
    /\ (gFetch.kind = "fault" /\ ~gFired) => gError = MkError(gFetch.message)
    /\ (gFetch.kind = "response" /\ ~Ok(gFetch) /\ ~gFired) =>
          gError = MkError(ServerReturned(gFetch))

C5_Witness ==
    /\ gPc = "done"
    /\ gFetch.kind = "response" /\ gFetch.status = 404
    /\ ~gFired
    /\ envDEV /\ envMODE = "production"
    /\ gOutcome.kind = "return" /\ gOutcome.article.source = "mock"

----------------------------------------------------------------------------
(* deleteArticle *)

\* 'findOneAndRemove is not a function'
DefectSignature == <<"findOneAndRemove is not a function">>

\* Bodies of a non-2xx answer to the DELETE, as text.
BodyEmpty        == <<>>
BodyHtml         == <<"<html>502 Bad Gateway</html>">>
BodyRawDefect    == <<"TypeError: Article.">> \o DefectSignature
BodyNull         == <<"null">>
BodyNumber       == <<"42">>
BodyString       == <<"\"">> \o DefectSignature \o <<"\"">>
BodyNotFound     == <<"{\"msg\":\"Article not found\"}">>
BodyServerDefect == <<"{\"msg\":\"Server Error\",\"error\":\"Article.">>
                        \o DefectSignature \o <<"\",\"success\":false}">>
BodyServerOther  == <<"{\"msg\":\"Server Error\",\"error\":\"buffering timed out\",\"success\":false}">>
BodyMsgDefect    == <<"{\"message\":\"Article.">> \o DefectSignature \o <<"\"}">>
BodyMsgOther     == <<"{\"message\":\"Forbidden\",\"error\":\"Article.">>
                        \o DefectSignature \o <<"\"}">>
BodyMsgNumber    == <<"{\"message\":500}">>
BodyMsgObject    == <<"{\"message\":{\"code\":13}}">>
BodyMsgArray     == <<"{\"message\":[\"">> \o DefectSignature \o <<"\"]}">>
BodyMsgEmpty     == <<"{\"message\":\"\",\"error\":null}">>

BodyTexts ==
    {BodyEmpty, BodyHtml, BodyRawDefect, BodyNull, BodyNumber, BodyString,
     BodyNotFound, BodyServerDefect, BodyServerOther, BodyMsgDefect,
     BodyMsgOther, BodyMsgNumber, BodyMsgObject, BodyMsgArray, BodyMsgEmpty}

\* JSON.parse succeeds on the text.
JsonParses(text) == text \notin {BodyEmpty, BodyHtml, BodyRawDefect}

\* JSON.parse(text) where it succeeds.
JsonParse(text) ==
    CASE text = BodyNull   -> JNull
      [] text = BodyNumber -> JNum(42)
      [] text = BodyString -> JStr(DefectSignature)
      [] text = BodyNotFound ->
            JObj([msg |-> JStr(<<"Article not found">>)])
      [] text = BodyServerDefect ->
            JObj([msg |-> JStr(<<"Server Error">>),
                  error |-> JStr(<<"Article.">> \o DefectSignature),
                  success |-> JBool(FALSE)])
      [] text = BodyServerOther ->
            JObj([msg |-> JStr(<<"Server Error">>),
                  error |-> JStr(<<"buffering timed out">>),
                  success |-> JBool(FALSE)])
      [] text = BodyMsgDefect ->
            JObj([message |-> JStr(<<"Article.">> \o DefectSignature)])
      [] text = BodyMsgOther ->
            JObj([message |-> JStr(<<"Forbidden">>),
                  error |-> JStr(<<"Article.">> \o DefectSignature)])
      [] text = BodyMsgNumber -> JObj([message |-> JNum(500)])
      [] text = BodyMsgObject ->
            JObj([message |-> JObj([code |-> JNum(13)])])
      [] text = BodyMsgArray ->
            JObj([message |-> JArr(<<JStr(DefectSignature)>>)])
      [] text = BodyMsgEmpty ->
            JObj([message |-> JStr(<<>>), error |-> JNull])

\* What settles a fetch of deleteArticle.  statusText is '' over HTTP/2;
\* readable is FALSE when response.text() rejects.
DelResponded(s, st, text, rd) ==
    [kind |-> "response", status |-> s, statusText |-> st, text |-> text,
     readable |-> rd, message |-> <<>>]
DelFaulted(m) ==
    [kind |-> "fault", status |-> 0, statusText |-> <<>>, text |-> <<>>,
     readable |-> FALSE, message |-> m]
DelPending ==
    [kind |-> "none", status |-> 0, statusText |-> <<>>, text |-> <<>>,
     readable |-> FALSE, message |-> <<>>]

DeleteStatusCodes == {200, 404, 500}

DelNetOutcomes ==
    {DelResponded(s, st, text, rd) :
        s \in DeleteStatusCodes, st \in {<<>>, <<"status text">>},
        text \in BodyTexts, rd \in BOOLEAN}
      \cup {DelFaulted(m) : m \in FaultMessages \cup {<<>>}}

\* Answers to the alternate POST; the code reads only their ok flag.
AltNetOutcomes ==
    {DelResponded(s, <<>>, BodyEmpty, TRUE) : s \in DeleteStatusCodes}
      \cup {DelFaulted(m) : m \in FaultMessages}

NoDelOutcome == [kind |-> "none", success |-> FALSE, message |-> <<>>]
DelResult(ok, m) == [kind |-> "return", success |-> ok, message |-> m]
DelThrown(m) == [kind |-> "throw", success |-> FALSE, message |-> m]

DeleteRequest(id) ==
    [method |-> "DELETE", path |-> <<"/api/articles/", id>>, body |-> <<>>]
AltRequest(id) ==
    [method |-> "POST", path |-> <<"/api/articles/remove">>,
     body |-> <<"{\"articleId\":\"", id, "\"}">>]

\* const errorText = await response.text().catch(() => '')
ErrorText(r) == IF r.readable THEN r.text ELSE <<>>

\* errorData = errorText ? JSON.parse(errorText) : {}, and on a SyntaxError
\* errorData = { error: errorText }
ErrorData(errorText) ==
    IF errorText = <<>> THEN JObj(<<>>)
    ELSE IF JsonParses(errorText) THEN JsonParse(errorText)
    ELSE JObj([error |-> JStr(errorText)])

\* errorData.message || errorData.error || response.statusText || 'Unknown error'
ErrorMessageOf(errorData, r) ==
    OrElse(OrElse(OrElse(Prop(errorData, "message"), Prop(errorData, "error")),
                  JStr(r.statusText)),
           JStr(<<"Unknown error">>))

\* { success: false, message: `Server error (${response.status}): ${errorMessage}` }
ServerErrorResult(r, errorMessage) ==
    DelResult(FALSE, <<"Server error (", ToString(r.status), "): ">>
                        \o TemplateText(errorMessage))

\* A catch clause that rethrows.
DeleteRethrow(err) ==
    /\ dPc' = "done"
    /\ dOutcome' = DelThrown(err.message)

\* catch (error) { return { success: false, message:
\*   `Network error: ${error.message || 'Could not connect to server'}` } }
DeleteCatch(err) ==
    /\ dPc' = "done"
    /\ dOutcome' = DelResult(FALSE, <<"Network error: ">> \o
                      (IF err.message # <<>> THEN err.message
                       ELSE <<"Could not connect to server">>))

\* The alternate method tried on every failure.
DetectsDefectAlways(errorMessage) == TRUE

\* errorMessage.includes('findOneAndRemove is not a function')
DetectsDefect(errorMessage) == JsIncludes(errorMessage, DefectSignature)

\* deleteArticle(id) up to its first await: the DELETE is sent.
DeleteStart ==
    /\ dPc = "idle"
    /\ \E id \in Ids :
        /\ dId' = id
        /\ dRequests' = <<DeleteRequest(id)>>
    /\ dPc' = "primary"
    /\ UNCHANGED <<dResponse, dErrorMessage, dAltResult, dOutcome>>
    /\ UNCHANGED dRest

\* The awaited DELETE settles: a fault goes to the catch clause, a 2xx
\* answer returns success, any other answer awaits response.text().
DeletePrimarySettles ==
    /\ dPc = "primary"
    /\ \E o \in DelNetOutcomes :
        /\ dResponse' = o
        /\ IF o.kind = "fault"
           THEN DeleteCatch(MkError(o.message))
           ELSE IF Ok(o)
           THEN /\ dPc' = "done"
                /\ dOutcome' = DelResult(TRUE, <<"Article deleted successfully">>)
           ELSE /\ dPc' = "text"
                /\ UNCHANGED dOutcome
    /\ UNCHANGED <<dId, dErrorMessage, dRequests, dAltResult>>
    /\ UNCHANGED dRest

\* response.text() settles: the error data and the error message are
\* computed, and either the alternate POST is sent or the failure returned.
DeleteTextSettles ==
    /\ dPc = "text"
    /\ LET errorData == ErrorData(ErrorText(dResponse))
       IN IF ~Readable(errorData)
          THEN /\ DeleteCatch(MkError(
                      <<"Cannot read properties of null (reading 'message')">>))
               /\ UNCHANGED <<dErrorMessage, dRequests>>
          ELSE LET errorMessage == ErrorMessageOf(errorData, dResponse)
               IN /\ dErrorMessage' = errorMessage
                  /\ IF ~HasIncludes(errorMessage)
                     THEN /\ DeleteCatch(MkError(
                                 <<"errorMessage.includes is not a function">>))
                          /\ UNCHANGED dRequests
                     ELSE IF DetectsDefect(errorMessage)
                     THEN /\ dRequests' = Append(dRequests, AltRequest(dId))
                          /\ dPc' = "alt"
                          /\ UNCHANGED dOutcome
                     ELSE /\ dPc' = "done"
                          /\ dOutcome' = ServerErrorResult(dResponse, errorMessage)
                          /\ UNCHANGED dRequests
    /\ UNCHANGED <<dId, dResponse, dAltResult>>
    /\ UNCHANGED dRest

\* The awaited alternate POST settles: a 2xx answer returns success, any
\* other answer and a fault (caught and logged) return the DELETE's failure.
DeleteAltSettles ==
    /\ dPc = "alt"
    /\ \E o \in AltNetOutcomes :
        /\ dAltResult' = o
        /\ dOutcome' =
             IF Ok(o)
             THEN DelResult(TRUE, <<"Article deleted successfully (alt method)">>)
             ELSE ServerErrorResult(dResponse, dErrorMessage)
    /\ dPc' = "done"
    /\ UNCHANGED <<dId, dResponse, dErrorMessage, dRequests>>
    /\ UNCHANGED dRest

InitDelete ==
    /\ dPc = "idle"
    /\ dId = "A1"
    /\ dResponse = DelPending
    /\ dErrorMessage = JUndef
    /\ dRequests = <<>>
    /\ dAltResult = DelPending
    /\ dOutcome = NoDelOutcome

NextDelete ==
    \/ DeleteStart
    \/ DeletePrimarySettles
    \/ DeleteTextSettles
    \/ DeleteAltSettles

----------------------------------------------------------------------------
(* Claims about deleteArticle *)

IsFragments(m) == DOMAIN m = 1..Len(m) /\ \A i \in 1..Len(m) : m[i] \in STRING

\* C6: deleteArticle never throws: whatever the DELETE and the alternate
\* POST are answered with (2xx, non-2xx with any body, network fault), a
\* completed call has returned an object {success: boolean, message: string}.
C6_DeleteNeverThrows ==
    /\ dOutcome.kind # "throw"
    /\ dPc = "done" =>
          /\ dOutcome.kind = "return"
          /\ dOutcome.success \in BOOLEAN
          /\ IsFragments(dOutcome.message)
          /\ dOutcome.message # <<>>
    /\ dPc # "done" => dOutcome = NoDelOutcome

C6_Witness ==
    /\ dPc = "done"
    /\ dResponse.kind = "response" /\ dResponse.status = 500
    /\ dResponse.readable /\ dResponse.text = BodyNull
    /\ dOutcome.kind = "return" /\ ~dOutcome.success

AltRequestsSent ==
    Cardinality({i \in 1..Len(dRequests) : dRequests[i].method = "POST"})

\* The message the failed DELETE carries: the body's message, else its error,
\* else the status text.
PrimaryFailedWith(sig) ==
    /\ dResponse.kind = "response" /\ ~Ok(dResponse)
    /\ dErrorMessage # JUndef
    /\ HasIncludes(dErrorMessage)
    /\ JsIncludes(dErrorMessage, sig)

\* C7: once the DELETE's failure has been inspected, exactly one request
\* to POST /api/articles/remove has been sent when the failure message
\* carries 'findOneAndRemove is not a function', and none when the DELETE
\* succeeded or failed with any other message; never more than one.
C7_AlternateOnlyOnDefect ==
    /\ AltRequestsSent <= 1
    /\ \A i \in 1..Len(dRequests) :
          dRequests[i].method = "POST" => (i = 2 /\ dRequests[i] = AltRequest(dId))
    /\ dPc \in {"alt", "done"} =>
          (AltRequestsSent = 1 <=> PrimaryFailedWith(DefectSignature))
    /\ (dPc \in {"alt", "done"} /\ dResponse.kind = "response" /\ ~Ok(dResponse)
          /\ dResponse.readable
          /\ dResponse.text \in {BodyServerDefect, BodyMsgDefect, BodyRawDefect})
          => AltRequestsSent = 1
    /\ (dPc = "done" /\ dResponse.kind = "response" /\ ~Ok(dResponse)
          /\ dResponse.readable
          /\ dResponse.text \in {BodyServerOther, BodyNotFound, BodyHtml})
          => AltRequestsSent = 0

C7_Witness ==
    /\ dPc = "done"
    /\ dResponse.text = BodyServerDefect /\ dResponse.readable
    /\ AltRequestsSent = 1
    /\ dAltResult.kind = "response" /\ dAltResult.status = 500

----------------------------------------------------------------------------
(* updateArticleStatus *)

\* status: 'draft' | 'published' | 'archived'
Statuses == {"draft", "published", "archived"}

\* The type annotation is erased at run time: callers can pass any string.
StatusArguments == Statuses \cup {"deleted", ""}

PatchRequest(id, status) ==
    [method |-> "PATCH", path |-> <<"/api/articles/", id, "/status">>,
     body |-> <<"{\"status\":\"", status, "\"}">>]

\* updateArticleStatus(id, status) up to its first await: the PATCH is sent.
StatusCall(id, st) ==
    /\ sId' = id
    /\ sStatus' = st
    /\ sRequests' = <<PatchRequest(id, st)>>
    /\ sPc' = "inflight"
    /\ UNCHANGED <<sResponse, sOutcome>>

\* A call of updateArticleStatus with any arguments.
StatusStart ==
    /\ sPc = "idle"
    /\ \E id \in Ids, st \in StatusArguments : StatusCall(id, st)
    /\ UNCHANGED sRest

\* The awaited PATCH settles: a fault is rethrown by the catch clause, a
\* non-2xx answer throws new Error(`Error: ${response.status}`), a 2xx
\* answer awaits response.json().
StatusPatchSettles ==
    /\ sPc = "inflight"
    /\ \E o \in NetOutcomes :
        /\ sResponse' = o
        /\ IF o.kind = "fault"
           THEN /\ sPc' = "done"
                /\ sOutcome' = Thrown(o.message)
           ELSE IF ~Ok(o)
           THEN /\ sPc' = "done"
                /\ sOutcome' = Thrown(<<"Error: ", ToString(o.status)>>)
           ELSE /\ sPc' = "json"
                /\ UNCHANGED sOutcome
    /\ UNCHANGED <<sId, sStatus, sRequests>>
    /\ UNCHANGED sRest

\* await response.json() settles.
StatusJsonSettles ==
    /\ sPc = "json"
    /\ sPc' = "done"
    /\ sOutcome' = IF sResponse.bodyOk
                   THEN Returned(<<"article ", sId, " ", sStatus>>)
                   ELSE Thrown(JsonErrorMessage)
    /\ UNCHANGED <<sId, sStatus, sResponse, sRequests>>
    /\ UNCHANGED sRest

InitStatus ==
    /\ sPc = "idle"
    /\ sId = "A1"
    /\ sStatus = "draft"
    /\ sResponse = NoResponse
    /\ sRequests = <<>>
    /\ sOutcome = NoOutcome

NextStatus ==
    \/ StatusStart
    \/ StatusPatchSettles
    \/ StatusJsonSettles

----------------------------------------------------------------------------
(* Claims about updateArticleStatus *)

\* C8: updateArticleStatus called with a status that is not one of draft,
\* published, archived fails locally with a validation error and issues no
\* network request.
C8_InvalidStatusFailsLocally ==
    (sPc # "idle" /\ sStatus \notin Statuses) =>
        /\ sRequests = <<>>
        /\ sPc = "done"
        /\ sOutcome.kind = "throw"

----------------------------------------------------------------------------
(* normalizeArticleData *)

MaxDefects == 2

\* Readings of new Date().toISOString()
ClockReadings == {"2025-06-01T10:00:00.000Z", "2025-06-01T10:00:01.000Z"}

TextFields  == {"articleid", "title", "subtitle", "author", "designation"}
ArrayFields == {"images", "subtopics", "subcontent", "keywords"}
InputKeys   == TextFields \cup ArrayFields
                 \cup {"id", "date", "status", "article", "data"}

\* An article as the server stores and returns it.
StoredArticle ==
    JObj([articleid   |-> JStr(<<"A1">>),
          title       |-> JStr(<<"Title">>),
          subtitle    |-> JStr(<<"Subtitle">>),
          images      |-> JArr(<<JStr(<<"img.png">>)>>),
          subtopics   |-> JArr(<<JStr(<<"Intro">>), JStr(<<"More">>)>>),
          subcontent  |-> JArr(<<JStr(<<"First">>), JStr(<<"Second">>)>>),
          author      |-> JStr(<<"Ann">>),
          designation |-> JStr(<<"Editor">>),
          keywords    |-> JArr(<<JStr(<<"k">>)>>),
          date        |-> JStr(<<"2024-01-01T00:00:00.000Z">>),
          status      |-> JStr(<<"published">>)])

\* Another stored article, the value of a second wrapper key.
OtherArticle ==
    JObj([articleid   |-> JStr(<<"3f2a9c1e-77b0-4d2e-9a61-5c8e0f1b2d34">>),
          title       |-> JStr(<<"Other">>),
          subtitle    |-> JStr(<<"Other subtitle">>),
          images      |-> JArr(<<>>),
          subtopics   |-> JArr(<<>>),
          subcontent  |-> JArr(<<>>),
          author      |-> JStr(<<"Bob">>),
          designation |-> JStr(<<"Writer">>),
          keywords    |-> JArr(<<>>),
          date        |-> JStr(<<"2023-05-05T00:00:00.000Z">>),
          status      |-> JStr(<<"archived">>)])

\* Values a malformed response may carry in a field.
OddValues ==
    {JNull, JStr(<<>>), JStr(<<"deleted">>), JNum(7), JArr(<<JStr(<<"x">>)>>)}

Absent == [t |-> "absent"]

\* obj with key k set to v, or without key k when v is Absent.
WithField(obj, k, v) ==
    IF v = Absent
    THEN JObj([x \in (DOMAIN obj.o) \ {k} |-> obj.o[x]])
    ELSE JObj([x \in (DOMAIN obj.o) \cup {k} |-> IF x = k THEN v ELSE obj.o[x]])

\* The stored article with at most n of its fields malformed or missing.
RECURSIVE Malformed(_)
Malformed(n) ==
    IF n = 0 THEN {StoredArticle}
    ELSE LET prev == Malformed(n - 1)
         IN prev \cup {WithField(x, k, v) :
                          x \in prev, k \in InputKeys,
                          v \in OddValues \cup {Absent}}

WrapKinds == {"bare", "article", "data", "both"}

\* The response shapes: X itself, {article: X}, {data: X}, and
\* {article: X, data: Y}.
Wrapped(w, x) ==
    CASE w = "bare"    -> x
      [] w = "article" -> JObj([article |-> x])
      [] w = "data"    -> JObj([data |-> x])
      [] w = "both"    -> JObj([article |-> x, data |-> OtherArticle])

\* Arguments that are no object at all.
NonObjects == {JUndef, JNull, JStr(<<>>), JStr(<<"OK">>), JNum(0), JNum(7),
               JArr(<<>>)}

NoNormOutcome   == [kind |-> "none"]
NormReturned(a) == [kind |-> "return", value |-> a]
NormThrown(m)   == [kind |-> "throw", message |-> m]

\* The wrapper keys read in the other order.
UnwrapDataFirst(data) ==
    OrElse(OrElse(Prop(data, "data"), Prop(data, "article")), data)

\* const article = data.article || data.data || data
Unwrap(data) ==
    OrElse(OrElse(Prop(data, "article"), Prop(data, "data")), data)

\* Array.isArray(article.k) ? article.k : []
ArrayOrEmpty(v) == IF IsArray(v) THEN v ELSE JArr(<<>>)

\* The object literal normalizeArticleData returns.
Canonical(article, now) ==
    [articleid   |-> OrElse(OrElse(Prop(article, "articleid"),
                                   Prop(article, "id")), JStr(<<>>)),
     title       |-> OrElse(Prop(article, "title"), JStr(<<>>)),
     subtitle    |-> OrElse(Prop(article, "subtitle"), JStr(<<>>)),
     images      |-> ArrayOrEmpty(Prop(article, "images")),
     subtopics   |-> ArrayOrEmpty(Prop(article, "subtopics")),
     subcontent  |-> ArrayOrEmpty(Prop(article, "subcontent")),
     author      |-> OrElse(Prop(article, "author"), JStr(<<>>)),
     designation |-> OrElse(Prop(article, "designation"), JStr(<<>>)),
     keywords    |-> ArrayOrEmpty(Prop(article, "keywords")),
     date        |-> OrElse(Prop(article, "date"), JStr(<<now>>)),
     status      |-> OrElse(Prop(article, "status"), JStr(<<"draft">>))]

\* normalizeArticleData(data) called when the clock reads now.
normalizeArticleData(data, now) ==
    IF ~Readable(data)
    THEN NormThrown(<<"Cannot read properties of ", data.t,
                      " (reading 'article')">>)
    ELSE NormReturned(Canonical(Unwrap(data), now))

\* A caller passes a response to normalizeArticleData.
NormalizeCall ==
    /\ nOut = NoNormOutcome
    /\ \E now \in ClockReadings :
        /\ nNow' = now
        /\ nOut' = normalizeArticleData(nData, now)
    /\ UNCHANGED <<nX, nWrap, nData>>
    /\ UNCHANGED nRest

\* The responses normalizeArticleData is given: an article X, malformed in
\* at most MaxDefects fields, in one of the wrapping shapes, or a non-object.
InitNormalize ==
    /\ nX \in Malformed(MaxDefects)
    /\ nWrap \in WrapKinds \cup {"nonobject"}
    /\ IF nWrap = "nonobject"
       THEN nX = StoredArticle /\ nData \in NonObjects
       ELSE nData = Wrapped(nWrap, nX)
    /\ nNow = "unread"
    /\ nOut = NoNormOutcome

\* No response has been received.
IdleNormalize ==
    /\ nX = StoredArticle
    /\ nWrap = "bare"
    /\ nData = StoredArticle
    /\ nNow = "unread"
    /\ nOut = NoNormOutcome

NextNormalize ==
    \/ NormalizeCall

----------------------------------------------------------------------------
(* Claims about normalizeArticleData *)

\* X is an article: it carries its own date and has no article or data
\* property of its own.
ArticleShaped(x) ==
    /\ x.t = "object"
    /\ Truthy(Prop(x, "date"))
    /\ ~Truthy(Prop(x, "article"))
    /\ ~Truthy(Prop(x, "data"))

\* C9: for every article-shaped X, normalizeArticleData({article: X}),
\* normalizeArticleData({data: X}) and normalizeArticleData(X) return the
\* same canonical article, whenever they are called; when both an article
\* key and a data key are present the article key wins.  For the stored
\* article itself the canonical article has the stored fields.
C9_WrappingsAgree ==
    (nOut # NoNormOutcome /\ nWrap \in WrapKinds /\ ArticleShaped(nX)) =>
        /\ nOut.kind = "return"
        /\ \A now \in ClockReadings : nOut = normalizeArticleData(nX, now)
        /\ nX = StoredArticle => nOut.value = StoredArticle.o

C9_Witness ==
    /\ nOut # NoNormOutcome
    /\ nWrap = "both"
    /\ ArticleShaped(nX)
    /\ nX # StoredArticle
    /\ nOut.kind = "return"
    /\ nOut.value.title = JStr(<<>>)

IsJsString(v) == v.t = "string"

\* C10: for every input, normalizeArticleData does not raise and returns a
\* record in which every text field is a string, every array field is a
\* sequence, and status is one of draft, published, archived.
C10_NormalizeTotal ==
    nOut # NoNormOutcome =>
        /\ nOut.kind = "return"
        /\ \A k \in TextFields : IsJsString(nOut.value[k])
        /\ \A k \in ArrayFields : IsArray(nOut.value[k])
        /\ nOut.value.status \in {JStr(<<st>>) : st \in Statuses}

----------------------------------------------------------------------------
(* List views *)

\* The article lists of the admin UI: pages/ManageArticles in the version
\* that deletes through the service, pages/ManageArticles in the version
\* that deletes with axios, and pages/Dashboard.
Views == {"ManageArticles/service", "ManageArticles/axios", "Dashboard"}

\* A row of the list; the handlers read its articleid and status only.
Row(id, st) == [articleid |-> id, status |-> st]

\* The articleid of a row that was built without one.
NoArticleId == "undefined"

\* response.data of GET /api/articles: the stored articles.
RECURSIVE RowLists(_)
RowLists(ids) ==
    {<<>>} \cup
    UNION {{<<Row(id, st)>> \o rest : st \in Statuses,
                                     rest \in RowLists(ids \ {id})}
           : id \in ids}

ServerLists == RowLists(Ids)

\* The example rows each view falls back to when the GET fails.
FallbackRows(view) ==
    CASE view = "ManageArticles/service" ->
            <<Row("1", "published"), Row("2", "draft")>>
      [] view = "ManageArticles/axios" ->
            <<Row(NoArticleId, "published"), Row(NoArticleId, "published"),
              Row(NoArticleId, "draft")>>
      [] view = "Dashboard" ->
            <<Row("1", "published")>>

\* Messages of the errors axios rejects with.
AxiosErrorMessages ==
    {<<"Network Error">>, <<"timeout of 10000ms exceeded">>,
     <<"Request failed with status code 500">>, <<>>}

\* err.message || 'Unknown error'
MessageOrUnknown(m) == IF m = <<>> THEN <<"Unknown error">> ELSE m

NoNotification == [type |-> "none", title |-> <<>>, message |-> <<>>]
\* setNotification({ message, type })
Notification(m, t) == [type |-> t, title |-> <<>>, message |-> m]
\* toast({ title, description })
Toast(t, d) == [type |-> "default", title |-> t, message |-> d]

\* Bookkeeping of the last delete action: the id, the list when the action
\* began, and what the server said about the removal.
NoAction == [done |-> FALSE, id |-> "", before |-> <<>>, server |-> "none"]
Began(id, rows) ==
    [done |-> FALSE, id |-> id, before |-> rows, server |-> "none"]
Ended(a, server) == [a EXCEPT !.done = TRUE, !.server = server]

\* articles.filter(article => article.articleid !== id)
WithoutRow(rows, id) == SelectSeq(rows, LAMBDA r : r.articleid # id)

\* The ids the delete dialog can be confirmed for: a row's articleid that
\* passes `articleToDelete && handleDeleteArticle(articleToDelete)`.
DeletableIds(rows) ==
    {rows[i].articleid : i \in 1..Len(rows)} \ {NoArticleId, ""}

\* The rows a view renders, with no search term and no status filter set:
\* ManageArticles renders `loading ? spinner : error ? alert : rows`,
\* Dashboard renders its rows whatever loading and error are.
ShownRows ==
    IF lView = "Dashboard" THEN lArticles
    ELSE IF lLoading THEN <<>>
    ELSE IF lError.set THEN <<>>
    ELSE lArticles

\* useEffect(() => { fetchArticles() }, []) up to the awaited GET.
Mount ==
    /\ lPc = "unmounted"
    /\ \E v \in Views : lView' = v
    /\ lLoading' = TRUE
    /\ lPc' = "fetching"
    /\ UNCHANGED <<lArticles, lError, lNotification, lId, lSnapshot, lLast, lStatus>>
    /\ UNCHANGED lRest

\* fetchArticles from the settled GET to its end.
FetchSettles ==
    /\ lPc = "fetching"
    /\ \/ \E rows \in ServerLists :
            /\ lArticles' = rows
            /\ lError' = NoError
       \/ \E m \in AxiosErrorMessages :
            /\ lError' = MkError(<<"Failed to fetch articles: ">>
                                    \o MessageOrUnknown(m))
            /\ lArticles' = FallbackRows(lView)
    /\ lLoading' = FALSE
    /\ lPc' = "ready"
    /\ UNCHANGED <<lView, lNotification, lId, lSnapshot, lLast, lStatus>>
    /\ UNCHANGED lRest

\* What deleteArticle(id) hands to the view: one of its results, or (for
\* the handler's catch clause) an exception.
ServiceDeleteOutcomes ==
    {DelResult(TRUE, <<"Article deleted successfully">>),
     DelResult(TRUE, <<"Article deleted successfully (alt method)">>),
     DelResult(FALSE, <<"Server error (", "500", "): ">> \o DefectSignature),
     DelResult(FALSE, <<"Server error (", "404", "): ">>
                          \o <<"Article not found">>),
     DelResult(FALSE, <<"Network error: ">> \o <<"Failed to fetch">>),
     DelThrown(<<"Failed to fetch">>),
     DelThrown(<<>>)}

\* ManageArticles/service: handleDeleteArticle(id) up to the awaited
\* deleteArticle(id).
ServiceDeleteStart ==
    /\ lView = "ManageArticles/service"
    /\ lPc = "ready"
    /\ \E id \in DeletableIds(ShownRows) :
            /\ lId' = id
            /\ lLast' = Began(id, lArticles)
    /\ lLoading' = TRUE
    /\ lPc' = "deleting"
    /\ UNCHANGED <<lView, lArticles, lError, lNotification, lSnapshot, lStatus>>
    /\ UNCHANGED lRest

\* The notification handleDeleteArticle shows for what deleteArticle gave.
ServiceDeleteNotification(o) ==
    IF o.kind = "throw"
    THEN Notification(<<"Article removed from UI. Error: ">>
                          \o MessageOrUnknown(o.message), "warning")
    ELSE IF o.success
    THEN Notification(<<"Article deleted successfully">>, "success")
    ELSE IF Includes(o.message, DefectSignature)
    THEN Notification(<<"Article removed from UI. Note: Backend has a configuration issue - please notify developers.">>,
                      "warning")
    ELSE Notification(<<"Article removed from UI. Server message: ">>
                          \o o.message, "warning")

\* ManageArticles/service: handleDeleteArticle from the settled
\* deleteArticle(id) to its end, the finally clause included.
ServiceDeleteSettles ==
    /\ lView = "ManageArticles/service"
    /\ lPc = "deleting"
    /\ \E o \in ServiceDeleteOutcomes :
            /\ lArticles' = WithoutRow(lArticles, lId)
            /\ lNotification' = ServiceDeleteNotification(o)
            /\ lLast' = Ended(lLast, IF o.kind = "throw" THEN "raised"
                                     ELSE IF o.success THEN "confirmed"
                                     ELSE "failed")
    /\ lLoading' = FALSE
    /\ lPc' = "ready"
    /\ UNCHANGED <<lView, lError, lId, lSnapshot, lStatus>>
    /\ UNCHANGED lRest

\* ManageArticles/axios: handleDeleteArticle(id) up to the awaited
\* axios.delete; the handler closes over the articles of its render.
AxiosDeleteStart ==
    /\ lView = "ManageArticles/axios"
    /\ lPc = "ready"
    /\ \E id \in DeletableIds(ShownRows) :
            /\ lId' = id
            /\ lLast' = Began(id, lArticles)
    /\ lSnapshot' = lArticles
    /\ lPc' = "deleting"
    /\ UNCHANGED <<lView, lArticles, lLoading, lError, lNotification, lStatus>>
    /\ UNCHANGED lRest

\* The try block after a fulfilled axios.delete.
AxiosDeleteFulfilled ==
    /\ lArticles' = WithoutRow(lSnapshot, lId)
    /\ lNotification' = Notification(<<"Article deleted successfully">>,
                                     "success")
    /\ lLast' = Ended(lLast, "confirmed")

\* The catch block after a rejected axios.delete.
AxiosDeleteRejected ==
    /\ lNotification' = Notification(<<"Failed to delete article">>, "error")
    /\ lLast' = Ended(lLast, "failed")
    /\ UNCHANGED lArticles

\* ManageArticles/axios: handleDeleteArticle from the settled axios.delete
\* to its end.
AxiosDeleteSettles ==
    /\ lView = "ManageArticles/axios"
    /\ lPc = "deleting"
    /\ \/ AxiosDeleteFulfilled
       \/ AxiosDeleteRejected
    /\ lPc' = "ready"
    /\ UNCHANGED <<lView, lLoading, lError, lId, lSnapshot, lStatus>>
    /\ UNCHANGED lRest

\* Dashboard: handleDeleteArticle(id), which sends no request.
DashboardDelete ==
    /\ lView = "Dashboard"
    /\ lPc = "ready"
    /\ \E id \in DeletableIds(ShownRows) :
            /\ lId' = id
            /\ lArticles' = WithoutRow(lArticles, id)
            /\ lLast' = Ended(Began(id, lArticles), "none")
    /\ lNotification' = Toast(<<"Article deleted">>,
                              <<"The article has been successfully deleted.">>)
    /\ UNCHANGED <<lView, lPc, lLoading, lError, lSnapshot, lStatus>>
    /\ UNCHANGED lRest

\* A map that rewrites every row.
WithStatusOnAll(rows, id, st) ==
    [i \in 1..Len(rows) |-> [rows[i] EXCEPT !.status = st]]

\* prev.map(article => article.articleid === id
\*                         ? { ...article, status: newStatus } : article)
WithStatus(rows, id, st) ==
    [i \in 1..Len(rows) |->
        IF rows[i].articleid = id THEN [rows[i] EXCEPT !.status = st]
        ELSE rows[i]]

\* ManageArticles/service: handleStatusChange(id, newStatus), called by the
\* select of a rendered row, up to the awaited updateArticleStatus, whose
\* call runs up to its own first await.
StatusChangeStart ==
    /\ lView = "ManageArticles/service"
    /\ lPc = "ready"
    /\ sPc = "idle"
    /\ \E i \in 1..Len(ShownRows), st \in Statuses :
            /\ lId' = ShownRows[i].articleid
            /\ lStatus' = st
            /\ StatusCall(ShownRows[i].articleid, st)
    /\ lPc' = "changing"
    /\ UNCHANGED <<lView, lArticles, lLoading, lError, lNotification,
                   lSnapshot, lLast>>
    /\ UNCHANGED lsRest

\* handleStatusChange from the settled updateArticleStatus to its end.
StatusChangeSettles ==
    /\ lView = "ManageArticles/service"
    /\ lPc = "changing"
    /\ sPc = "done"
    /\ IF sOutcome.kind = "return"
       THEN /\ lArticles' = WithStatus(lArticles, lId, lStatus)
            /\ lNotification' =
                    Notification(<<"Article status updated to ", lStatus>>,
                                 "success")
       ELSE /\ lArticles' = lArticles
            /\ lNotification' =
                    Notification(<<"Failed to update status: ">>
                                     \o sOutcome.message, "error")
    /\ lPc' = "ready"
    /\ lId' = ""
    /\ lStatus' = ""
    /\ UNCHANGED <<lView, lLoading, lError, lSnapshot, lLast>>
    \* The call is over.
    /\ sPc' = "idle"
    /\ sId' = "A1"
    /\ sStatus' = "draft"
    /\ sResponse' = NoResponse
    /\ sRequests' = <<>>
    /\ sOutcome' = NoOutcome
    /\ UNCHANGED lsRest

\* No list view is mounted.
InitListView ==
    /\ lView = "none"
    /\ lPc = "unmounted"
    /\ lArticles = <<>>
    /\ lLoading = TRUE
    /\ lError = NoError
    /\ lNotification = NoNotification
    /\ lId = ""
    /\ lSnapshot = <<>>
    /\ lLast = NoAction
    /\ lStatus = ""

NextListView ==
    \/ Mount
    \/ FetchSettles
    \/ ServiceDeleteStart
    \/ ServiceDeleteSettles
    \/ AxiosDeleteStart
    \/ AxiosDeleteSettles
    \/ DashboardDelete
    \/ StatusChangeStart
    \/ StatusPatchSettles
    \/ StatusJsonSettles
    \/ StatusChangeSettles

----------------------------------------------------------------------------
(* Claims about the list views' delete action *)

\* The message tells the user the article was deleted.
SaysDeleted(n) ==
    \/ n.type = "success"
    \/ Includes(n.message, <<"Article deleted successfully">>)
    \/ Includes(n.message, <<"The article has been successfully deleted.">>)

\* C11: when a delete action of a list view has ended, the view's list is
\* the list the action began with less the row with the deleted articleid,
\* whether the server confirmed the removal, reported a failure, the call
\* raised, or no request was sent: that row is gone and no other row is.
\* ManageArticles/axios keeps the row when axios.delete is rejected.
C11_DeleteAlwaysRemovesRow ==
    lLast.done => lArticles = WithoutRow(lLast.before, lLast.id)

\* C20: when a delete action of a list view has ended a notification is
\* showing; it tells of a successful deletion only if the server confirmed
\* the removal, and otherwise it is a warning or an error.  The Dashboard
\* sends no request and shows "The article has been successfully deleted.".
C20_DeleteNotificationTruthful ==
    lLast.done =>
        /\ lNotification # NoNotification
        /\ SaysDeleted(lNotification) => lLast.server = "confirmed"
        /\ lLast.server # "confirmed" =>
                lNotification.type \in {"warning", "error"}

----------------------------------------------------------------------------
(* Article store: backend/routes/articleRoutes.js over the Article model *)

\* Creations the model follows; each reads the server clock once.
MaxClock == 3

\* Date.prototype.toISOString of the instant t.
Iso(t) == <<"2025-06-01T10:00:0", ToString(t), ".000Z">>

\* The instant the client's clock shows when it builds a create request.
ClientInstant == 1

BodyKeys == TextFields \cup ArrayFields \cup {"date", "status"}

\* The fields router.put destructures from req.body.
Editable == BodyKeys \ {"articleid", "date"}

\* What createArticle POSTs for a draft: the form's fields, the articleid
\* and the date the client assigned, status left to the caller.
BaseBody(id) ==
    [articleid   |-> JStr(<<id>>),
     date        |-> JStr(Iso(ClientInstant)),
     title       |-> JStr(<<"Title">>),
     subtitle    |-> JStr(<<"Subtitle">>),
     author      |-> JStr(<<"Ann">>),
     designation |-> JStr(<<"Editor">>),
     status      |-> JUndef,
     images      |-> JArr(<<JStr(<<"img.png">>)>>),
     subtopics   |-> JArr(<<JStr(<<"Intro">>)>>),
     subcontent  |-> JArr(<<JStr(<<"First">>)>>),
     keywords    |-> JArr(<<JStr(<<"k">>)>>)]

\* A PUT body that changes every field, articleid and date included, and
\* empties the images.
EditBody ==
    [articleid   |-> JStr(<<"A1">>),
     date        |-> JStr(Iso(0)),
     title       |-> JStr(<<"New title">>),
     subtitle    |-> JStr(<<"New subtitle">>),
     author      |-> JStr(<<"Bob">>),
     designation |-> JStr(<<"Writer">>),
     status      |-> JStr(<<"archived">>),
     images      |-> JArr(<<>>),
     subtopics   |-> JArr(<<JStr(<<"Outro">>)>>),
     subcontent  |-> JArr(<<JStr(<<"Last">>)>>),
     keywords    |-> JArr(<<JStr(<<"n">>)>>)]

\* A POST body with two subtopics and one subcontent.
UnpairedBody ==
    [BaseBody("A1") EXCEPT
        !.subtopics = JArr(<<JStr(<<"Intro">>), JStr(<<"More">>)>>)]

\* A POST body that names a keyword twice.
RepeatedBody ==
    [BaseBody("A1") EXCEPT !.keywords = JArr(<<JStr(<<"k">>), JStr(<<"k">>)>>)]

CreateBodies ==
    {[BaseBody(id) EXCEPT !.status = st] :
        id \in Ids,
        st \in {JUndef, JStr(<<"published">>), JStr(<<"deleted">>)}}
      \cup {[BaseBody(id) EXCEPT !.title = JStr(<<>>)] : id \in Ids}
      \cup {UnpairedBody, RepeatedBody}

UpdateBodies ==
    {EditBody,
     [EditBody EXCEPT !.title = JStr(<<>>)],
     [EditBody EXCEPT !.status = JStr(<<"deleted">>)],
     [EditBody EXCEPT !.status = JStr(<<>>)],
     [EditBody EXCEPT !.status = JUndef]}

\* A request: the route, the :id or articleid it addresses, the status it
\* carries in its path, query or PATCH body, and its article body.
Req(op, id, st, body) == [op |-> op, id |-> id, status |-> st, body |-> body]
NoReq == Req("none", "", JUndef, JUndef)

StatusValues == {JStr(<<st>>) : st \in StatusArguments} \cup {JUndef}

\* The requests clients send when one request is handled at a time.
StoreTraffic ==
    {Req("create", b.articleid.s[1], JUndef, b) : b \in CreateBodies}
      \cup {Req("update", id, JUndef, b) : id \in Ids, b \in UpdateBodies}
      \cup {Req("patch", id, st, JUndef) : id \in Ids, st \in StatusValues}
      \cup {Req("delete", id, JUndef, JUndef) : id \in Ids}
      \cup {Req("get", id, JUndef, JUndef) : id \in Ids}
      \cup {Req("list", "", st, JUndef) :
                st \in {JUndef, JStr(<<"published">>), JStr(<<"deleted">>)}}
      \cup {Req("byStatus", "", st, JUndef) :
                st \in {JStr(<<"draft">>), JStr(<<"deleted">>)}}

\* The requests clients send when two requests are handled at once.
RaceTraffic ==
    {Req("create", id, JUndef, BaseBody(id)) : id \in Ids}
      \cup {Req("update", "A1", JUndef, EditBody),
            Req("patch", "A1", JStr(<<"published">>), JUndef),
            Req("delete", "A1", JUndef, JUndef)}

\* A check that lets every status through.
ValidStatusAlways(st) == TRUE

\* ['draft', 'published', 'archived'].includes(status)
ValidStatus(st) == st \in {JStr(<<s>>) : s \in Statuses}

\* new Article({ articleid, title, ... , keywords }) at the instant now:
\* the schema's defaults fill status, date and the arrays.
NewArticle(body, now) ==
    [k \in BodyKeys |->
        IF k = "date" THEN now
        ELSE IF body[k] # JUndef THEN body[k]
        ELSE IF k = "status" THEN JStr(<<"draft">>)
        ELSE IF k \in ArrayFields THEN JArr(<<>>)
        ELSE JUndef]

\* The schema's validators, which save() runs: required strings are
\* non-empty and status is in the enum.
Validates(doc) ==
    /\ \A k \in TextFields : doc[k].t = "string" /\ doc[k].s # <<>>
    /\ ValidStatus(doc.status)

\* An index that rejects nothing.
DuplicateKeyNever(store, doc) == FALSE

\* articleid: { unique: true }: the index rejects a second document with
\* the articleid.
DuplicateKey(store, doc) ==
    \E i \in 1..Len(store) : store[i].articleid = doc.articleid

\* An update that takes the articleid of the body as well.
ArticleFieldsWithId(body) ==
    [k \in {e \in Editable \cup {"articleid"} : Truthy(body[e])} |-> body[k]]

\* const articleFields = {}; if (title) articleFields.title = title; ...
ArticleFields(body) ==
    [k \in {e \in Editable : Truthy(body[e])} |-> body[k]]

\* The first document with the articleid, 0 if there is none.
FirstMatch(store, id) ==
    IF \E i \in 1..Len(store) : store[i].articleid = JStr(<<id>>)
    THEN CHOOSE i \in 1..Len(store) :
            /\ store[i].articleid = JStr(<<id>>)
            /\ \A j \in 1..(i - 1) : store[j].articleid # JStr(<<id>>)
    ELSE 0

\* findOneAndUpdate({ articleid: id }, { $set: fields }): no validators run.
FindOneAndUpdate(store, id, fields) ==
    IF FirstMatch(store, id) = 0 THEN store
    ELSE [store EXCEPT ![FirstMatch(store, id)] =
            [k \in DOMAIN @ |-> IF k \in DOMAIN fields THEN fields[k] ELSE @[k]]]

\* A delete that removes nothing.
FindOneAndDeleteNothing(store, id) == store

\* findOneAndDelete({ articleid: id })
FindOneAndDelete(store, id) ==
    IF FirstMatch(store, id) = 0 THEN store
    ELSE SubSeq(store, 1, FirstMatch(store, id) - 1)
            \o SubSeq(store, FirstMatch(store, id) + 1, Len(store))

\* .sort({ date: -1 })
RECURSIVE SortByDateDesc(_)
SortByDateDesc(docs) ==
    IF docs = <<>> THEN <<>>
    ELSE LET latest == CHOOSE i \in 1..Len(docs) :
                            \A j \in 1..Len(docs) :
                                \/ docs[j].date < docs[i].date
                                \/ (docs[j].date = docs[i].date /\ i <= j)
         IN <<docs[latest]>> \o
            SortByDateDesc(SubSeq(docs, 1, latest - 1)
                             \o SubSeq(docs, latest + 1, Len(docs)))

\* Article.find(filter): filter is {} or { status }.
Find(store, st) ==
    IF st = JUndef THEN store
    ELSE SelectSeq(store, LAMBDA d : d.status = st)

\* The filter router.get('/') builds from req.query.status.
ListFilter(st) == IF Truthy(st) /\ ValidStatus(st) THEN st ELSE JUndef

\* res.json(article): the Date is serialised as ISO text.
DocJson(doc) == [doc EXCEPT !.date = JStr(Iso(@))]

Answer(code, body) == [status |-> code, body |-> body]
NoAnswer == Answer(0, [kind |-> "none"])
ArticleAnswer(store, id) ==
    Answer(200, IF FirstMatch(store, id) = 0 THEN [kind |-> "null"]
                ELSE [kind |-> "article",
                      article |-> DocJson(store[FirstMatch(store, id)])])
ArticlesAnswer(docs) ==
    Answer(200, [kind |-> "articles",
                 articles |-> [i \in 1..Len(docs) |-> DocJson(docs[i])]])
MsgAnswer(code, m) == Answer(code, [kind |-> "msg", msg |-> m])
ServerError == Answer(500, [kind |-> "text", text |-> <<"Server Error">>])
InvalidStatus ==
    MsgAnswer(400, <<"Invalid status. Must be draft, published, or archived">>)
NotFound == MsgAnswer(404, <<"Article not found">>)

\* A handler's call state: where it stands, its request, what its findOne
\* found, the document it built, and its answer once it has one.
Slot(pc, req, found, doc, answer) ==
    [pc |-> pc, req |-> req, found |-> found, doc |-> doc, answer |-> answer]
FreeSlot == Slot("free", NoReq, FALSE, JUndef, NoAnswer)
Answered(s, found, answer) == Slot("answered", s.req, found, s.doc, answer)

\* The handler of a request up to its first await.
Arrive(req) ==
    IF req.op \in {"patch", "byStatus"} /\ ~ValidStatus(req.status)
    THEN Answered(Slot("free", req, FALSE, JUndef, NoAnswer), FALSE,
                  InvalidStatus)
    ELSE Slot("find", req, FALSE, JUndef, NoAnswer)

\* A request arrives and its handler runs up to its first await.  The
\* model follows creations while the clock is within MaxClock.
Receive ==
    \E s \in DOMAIN aReqs, req \in aTraffic :
        /\ aReqs[s].pc = "free"
        /\ req.op = "create" =>
                aClock + Cardinality({t \in DOMAIN aReqs :
                            aReqs[t].pc = "find" /\ aReqs[t].req.op = "create"})
                    <= MaxClock
        /\ aReqs' = [aReqs EXCEPT ![s] = Arrive(req)]
        /\ UNCHANGED <<aStore, aClock, aTraffic>>
        /\ UNCHANGED aRest

\* The handler's first query settles and the handler runs to its answer or
\* to its second await.
FindSettles ==
    \E s \in DOMAIN aReqs :
      LET r == aReqs[s].req
          found == FirstMatch(aStore, r.id) # 0
      IN
        /\ aReqs[s].pc = "find"
        /\ aReqs' = [aReqs EXCEPT ![s] =
                CASE r.op = "list" ->
                        Answered(@, FALSE, ArticlesAnswer(
                            SortByDateDesc(Find(aStore, ListFilter(r.status)))))
                  [] r.op = "byStatus" ->
                        Answered(@, FALSE, ArticlesAnswer(
                            SortByDateDesc(Find(aStore, r.status))))
                  [] r.op = "get" ->
                        IF found THEN Answered(@, TRUE, ArticleAnswer(aStore, r.id))
                        ELSE Answered(@, FALSE, NotFound)
                  [] r.op = "create" ->
                        IF found
                        THEN Answered(@, TRUE, MsgAnswer(400,
                                <<"Article with this ID already exists">>))
                        ELSE Slot("write", r, FALSE,
                                  NewArticle(r.body, aClock), NoAnswer)
                  [] OTHER ->
                        IF found THEN Slot("write", r, TRUE, JUndef, NoAnswer)
                        ELSE Answered(@, FALSE, NotFound)]
        /\ aClock' = IF r.op = "create" /\ ~found THEN aClock + 1 ELSE aClock
        /\ UNCHANGED <<aStore, aTraffic>>
        /\ UNCHANGED aRest

\* article.save(): validation, then the insert under the unique index.
Save(s) ==
    IF Validates(aReqs[s].doc) /\ ~DuplicateKey(aStore, aReqs[s].doc)
    THEN /\ aStore' = Append(aStore, aReqs[s].doc)
         /\ aReqs' = [aReqs EXCEPT ![s] = Answered(@, FALSE,
                Answer(200, [kind |-> "article", article |-> DocJson(@.doc)]))]
    ELSE /\ aStore' = aStore
         /\ aReqs' = [aReqs EXCEPT ![s] = Answered(@, FALSE, ServerError)]

\* The handler's write settles and the handler answers.
WriteSettles ==
    \E s \in DOMAIN aReqs :
      LET r == aReqs[s].req IN
        /\ aReqs[s].pc = "write"
        /\ CASE r.op = "create" -> Save(s)
             [] r.op = "update" ->
                    /\ aStore' = FindOneAndUpdate(aStore, r.id,
                                                  ArticleFields(r.body))
                    /\ aReqs' = [aReqs EXCEPT ![s] =
                            Answered(@, TRUE, ArticleAnswer(aStore', r.id))]
             [] r.op = "patch" ->
                    /\ aStore' = FindOneAndUpdate(aStore, r.id,
                                                  [status |-> r.status])
                    /\ aReqs' = [aReqs EXCEPT ![s] =
                            Answered(@, TRUE, ArticleAnswer(aStore', r.id))]
             [] r.op = "delete" ->
                    /\ aStore' = FindOneAndDelete(aStore, r.id)
                    /\ aReqs' = [aReqs EXCEPT ![s] =
                            Answered(@, TRUE, Answer(200,
                                [kind |-> "msg", msg |-> <<"Article removed">>,
                                 success |-> TRUE]))]
        /\ UNCHANGED <<aClock, aTraffic>>
        /\ UNCHANGED aRest

\* The answer has left; the handler's call is over.
Respond ==
    \E s \in DOMAIN aReqs :
        /\ aReqs[s].pc = "answered"
        /\ aReqs' = [aReqs EXCEPT ![s] = FreeSlot]
        /\ UNCHANGED <<aStore, aClock, aTraffic>>
        /\ UNCHANGED aRest

\* An empty collection and no request.
EmptyStore ==
    /\ aStore = <<>>
    /\ aClock = 1

\* The server handles one request at a time.
InitStore ==
    /\ EmptyStore
    /\ aReqs = <<FreeSlot>>
    /\ aTraffic = StoreTraffic

\* The server handles two requests at once.
InitStoreRace ==
    /\ EmptyStore
    /\ aReqs = <<FreeSlot, FreeSlot>>
    /\ aTraffic = RaceTraffic

NextStore ==
    \/ Receive
    \/ FindSettles
    \/ WriteSettles
    \/ Respond

----------------------------------------------------------------------------
(* Claims about the article store *)

\* One of the three statuses of the data model.
IsStatus(v) == v \in {JStr(<<"draft">>), JStr(<<"published">>), JStr(<<"archived">>)}

\* The handlers whose answer is out and not yet gone, for the given routes.
AnsweredSlots(ops) ==
    {s \in DOMAIN aReqs : aReqs[s].pc = "answered" /\ aReqs[s].req.op \in ops}

\* The slots whose handler answers in this step, for the given routes.
AnsweringSlots(ops) ==
    {s \in DOMAIN aReqs : /\ aReqs[s].pc # "answered"
                          /\ aReqs'[s].pc = "answered"
                          /\ aReqs'[s].req.op \in ops}

\* The instant an ISO text denotes.
ParseIso(v) == CHOOSE t \in 0..(MaxClock + 1) : JStr(Iso(t)) = v

\* C12: whatever requests arrive and however two handlers interleave, no
\* two stored articles have the same articleid.
C12_UniqueArticleIds ==
    \A i, j \in 1..Len(aStore) :
        i # j => aStore[i].articleid # aStore[j].articleid

\* Two creates of one articleid overlapped, both passed the existence
\* check, and the second insert was refused.
C12_Witness ==
    \E s \in AnsweredSlots({"create"}) :
        /\ aReqs[s].answer = ServerError
        /\ Validates(aReqs[s].doc)
        /\ FirstMatch(aStore, aReqs[s].req.id) # 0

\* C13: every stored article's status is draft, published or archived,
\* and an article created without a status is stored as a draft.  A PUT
\* with status 'deleted' is written without validation.
C13_StatusInEnum ==
    /\ \A i \in 1..Len(aStore) : IsStatus(aStore[i].status)
    /\ \A s \in AnsweredSlots({"create"}) :
            (aReqs[s].answer.status = 200 /\ aReqs[s].req.body.status = JUndef)
                => aReqs[s].answer.body.article.status = JStr(<<"draft">>)

C15_PatchOnlyStatus ==
    [][\A s \in AnsweringSlots({"patch"}) :
        LET r == aReqs'[s].req
            a == aReqs'[s].answer
        IN  IF ~IsStatus(r.status)
            THEN a.status = 400 /\ aStore' = aStore
            ELSE IF \A i \in 1..Len(aStore) : aStore[i].articleid # JStr(<<r.id>>)
            THEN a.status = 404 /\ aStore' = aStore
            ELSE /\ a.status = 200
                 /\ aStore' = [i \in 1..Len(aStore) |->
                        IF aStore[i].articleid = JStr(<<r.id>>)
                        THEN [aStore[i] EXCEPT !.status = r.status]
                        ELSE aStore[i]]]_vars

\* A PATCH changed the status of a stored article and answered with it.
C15_Witness ==
    \E s \in AnsweredSlots({"patch"}) :
        /\ aReqs[s].answer.status = 200
        /\ aReqs[s].answer.body.kind = "article"
        /\ aReqs[s].answer.body.article.status = aReqs[s].req.status
        /\ Len(aStore) = Cardinality(Ids)
        /\ \E i \in 1..Len(aStore) : aStore[i].status # aReqs[s].req.status

\* C17: the article a create persisted has the articleid and the date of
\* the request body, and the body's status or draft.  The handler does not
\* read the body's date: the schema default Date.now fills it.
C17_CreateKeepsClientIdAndDate ==
    \A s \in AnsweredSlots({"create"}) :
        aReqs[s].answer.status = 200 =>
            LET b == aReqs[s].req.body
                a == aReqs[s].answer.body.article
            IN  /\ a.articleid = b.articleid
                /\ a.date = b.date
                /\ a.status = IF b.status = JUndef THEN JStr(<<"draft">>)
                               ELSE b.status

\* C18: a PUT for an absent articleid is answered 404; a PUT whose body has
\* an empty required field or an unrecognized status is not answered 200;
\* a PUT answered 200 left every editable field the body supplies at the
\* supplied value.  The handler skips empty strings and runs no validator.
C18_PutReplacesAndValidates ==
    \A s \in AnsweredSlots({"update"}) :
        LET b == aReqs[s].req.body
            a == aReqs[s].answer
        IN  /\ ~aReqs[s].found => a.status = 404
            /\ a.status = 200 =>
                    /\ \A k \in Editable \cap TextFields : b[k] # JStr(<<>>)
                    /\ b.status # JUndef => IsStatus(b.status)
                    /\ a.body.kind = "article"
                    /\ \A k \in Editable :
                            b[k] # JUndef => a.body.article[k] = b[k]

\* C19: a list answered for a status holds exactly the stored articles of
\* that status, a list answered without a filter holds all of them, both
\* latest date first; a list asked for an unrecognized status holds no
\* article of another status.  router.get('/') drops an unrecognized
\* ?status= and answers with every article.
C19_ListFilterAndOrder ==
    \A s \in AnsweredSlots({"list", "byStatus"}) :
        LET st == aReqs[s].req.status
            a == aReqs[s].answer
            wanted == {i \in 1..Len(aStore) :
                            st = JUndef \/ aStore[i].status = st}
        IN  IF a.body.kind # "articles" THEN ~IsStatus(st) /\ st # JUndef
            ELSE /\ \A i \in 1..Len(a.body.articles) :
                        st # JUndef => a.body.articles[i].status = st
                 /\ IsStatus(st) \/ st = JUndef =>
                        /\ Len(a.body.articles) = Cardinality(wanted)
                        /\ \A i \in wanted : \E j \in 1..Len(a.body.articles) :
                                a.body.articles[j] = DocJson(aStore[i])
                        /\ \A i, j \in 1..Len(a.body.articles) :
                                i < j => ParseIso(a.body.articles[i].date)
                                            >= ParseIso(a.body.articles[j].date)

----------------------------------------------------------------------------
(* A client session: the service's calls against the article store *)

\* Calls the model follows in one session.
MaxCalls == 4

\* A call of the service: the operation, the article id, the status
\* argument, and for createArticle the form's data.
Call(op, id, st, data) == [op |-> op, id |-> id, status |-> st, data |-> data]
NoCall == Call("none", "", JUndef, JUndef)

\* createArticle's request: { ...articleData, articleid: uuidv4(),
\* date: new Date().toISOString(), status: articleData.status || 'draft' }
CreateRequest(id, st) ==
    Req("create", id, JUndef,
        [BaseBody(id) EXCEPT !.status = OrElse(st, JStr(<<"draft">>))])

\* The request each call sends.
RequestOf(c) ==
    CASE c.op = "create"   -> CreateRequest(c.id, c.status)
      [] c.op = "get"      -> Req("get", c.id, JUndef, JUndef)
      [] c.op = "patch"    -> Req("patch", c.id, c.status, JUndef)
      [] c.op = "byStatus" -> Req("byStatus", "", c.status, JUndef)
      [] c.op = "delete"   -> Req("delete", c.id, JUndef, JUndef)

\* response.json() of an answer.
JsonOf(a) ==
    CASE a.body.kind = "article"  -> a.body.article
      [] a.body.kind = "articles" -> a.body.articles
      [] OTHER                    -> a.body

\* The DELETE's Response as deleteArticle reads it.
DeleteResponse(a) ==
    DelResponded(a.status, <<StatusText(a.status)>>,
                 IF a.status = 404 THEN BodyNotFound ELSE <<>>, TRUE)

EReturned(v) == [kind |-> "return", value |-> v, message |-> <<>>]
EThrown(m) == [kind |-> "throw", value |-> JUndef, message |-> m]

\* How each call ends once the server has answered.
OutcomeOf(c, a) ==
    LET ok == a.status >= 200 /\ a.status <= 299
        code == ToString(a.status)
    IN  CASE c.op = "create" ->
                IF ok THEN EReturned(JsonOf(a))
                ELSE EThrown(<<"Server error: ", code, " ", StatusText(a.status)>>)
          [] c.op = "get" ->
                IF ok THEN EReturned(JsonOf(a))
                ELSE IF IsDevelopment THEN EReturned(InlineMockArticle(c.id))
                ELSE EThrown(<<"Failed to fetch article: ", "Server returned ",
                               code, ": ", StatusText(a.status)>>)
          [] c.op \in {"patch", "byStatus"} ->
                IF ok THEN EReturned(JsonOf(a))
                ELSE EThrown(<<"Error: ", code>>)
          [] c.op = "delete" ->
                IF ok
                THEN EReturned(DelResult(TRUE, <<"Article deleted successfully">>))
                ELSE EReturned(ServerErrorResult(DeleteResponse(a),
                        ErrorMessageOf(ErrorData(ErrorText(DeleteResponse(a))),
                                       DeleteResponse(a))))

\* The calls a session can make next: createArticle with a fresh uuid, or
\* a call about an article the session created.
NextCalls ==
    {Call("create", id, st, BaseBody(id)) :
        id \in Ids \ eIds, st \in {JUndef, JStr(<<"published">>)}}
      \cup {Call("get", id, JUndef, JUndef) : id \in eIds}
      \cup {Call("patch", id, JStr(<<"published">>), JUndef) : id \in eIds}
      \cup {Call("byStatus", "", JStr(<<"published">>), JUndef)}
      \cup {Call("delete", id, JUndef, JUndef) : id \in eIds}

\* The session calls the service; the call runs up to its awaited fetch and
\* the request reaches its handler.
SessionCall ==
    /\ ePc = "idle"
    /\ Len(eLog) < MaxCalls
    /\ aReqs[1].pc = "free"
    /\ \E c \in NextCalls :
            /\ eCall' = c
            /\ eIds' = IF c.op = "create" THEN eIds \cup {c.id} ELSE eIds
            /\ aReqs' = [aReqs EXCEPT ![1] = Arrive(RequestOf(c))]
    /\ ePc' = "waiting"
    /\ UNCHANGED <<eLog, aStore, aClock, aTraffic>>
    /\ UNCHANGED eRest

\* The answer arrives and the call runs to its end.
SessionSettle ==
    /\ ePc = "waiting"
    /\ aReqs[1].pc = "answered"
    /\ eLog' = Append(eLog, [call |-> eCall,
                             outcome |-> OutcomeOf(eCall, aReqs[1].answer)])
    /\ aReqs' = [aReqs EXCEPT ![1] = FreeSlot]
    /\ ePc' = "idle"
    /\ eCall' = NoCall
    /\ UNCHANGED <<eIds, aStore, aClock, aTraffic>>
    /\ UNCHANGED eRest

\* No call made yet.
InitSession ==
    /\ ePc = "idle"
    /\ eCall = NoCall
    /\ eLog = <<>>
    /\ eIds = {}

NextSession ==
    \/ SessionCall
    \/ FindSettles
    \/ WriteSettles
    \/ SessionSettle

----------------------------------------------------------------------------
(* Claims about a session *)

\* No call between the i-th and the j-th changed or removed the article.
Untouched(i, j, id) ==
    \A k \in (i + 1)..(j - 1) :
        ~(eLog[k].call.op \in {"patch", "delete"} /\ eLog[k].call.id = id)

\* The i-th call was op for the article id and returned.
ReturnedAt(i, op, id) ==
    /\ eLog[i].call.op = op
    /\ eLog[i].call.id = id
    /\ eLog[i].outcome.kind = "return"

\* C16: in a session of calls through the service against the store: a get
\* after a successful create of a draft returns the created title and
\* author with status draft; a list of the published articles after a
\* successful updateStatus(id, published) holds the id; a get after a
\* delete that reported success throws a 404 error (production) or returns
\* the mock article (development), never the created article.
C16_EndToEnd ==
    \A i, j \in 1..Len(eLog), id \in Ids :
        i < j =>
        /\ ( /\ ReturnedAt(i, "create", id)
             /\ eLog[i].call.status = JUndef
             /\ eLog[j].call = Call("get", id, JUndef, JUndef)
             /\ Untouched(i, j, id) )
            => /\ eLog[j].outcome.kind = "return"
               /\ eLog[j].outcome.value.title = eLog[i].call.data.title
               /\ eLog[j].outcome.value.author = eLog[i].call.data.author
               /\ eLog[j].outcome.value.status = JStr(<<"draft">>)
        /\ ( /\ ReturnedAt(i, "patch", id)
             /\ eLog[j].call.op = "byStatus"
             /\ Untouched(i, j, id) )
            => /\ eLog[j].outcome.kind = "return"
               /\ \E n \in 1..Len(eLog[j].outcome.value) :
                    eLog[j].outcome.value[n].articleid = JStr(<<id>>)
        /\ ( /\ ReturnedAt(i, "delete", id)
             /\ eLog[i].outcome.value.success
             /\ eLog[j].call = Call("get", id, JUndef, JUndef) )
            => /\ IF IsDevelopment
                  THEN /\ eLog[j].outcome.kind = "return"
                       /\ eLog[j].outcome.value = InlineMockArticle(id)
                       /\ Includes(eLog[j].outcome.value.title, <<"Mock Article (ID: ">>)
                  ELSE /\ eLog[j].outcome.kind = "throw"
                       /\ Includes(eLog[j].outcome.message, <<"404">>)
               /\ \A k \in 1..Len(eLog) :
                    eLog[k].call.op = "create" =>
                        eLog[j].outcome.value # eLog[k].outcome.value

\* A session created an article, read it, deleted it and read it again.
C16_Witness ==
    /\ Len(eLog) = MaxCalls
    /\ \E id \in Ids :
        /\ ReturnedAt(1, "create", id)
        /\ ReturnedAt(2, "get", id)
        /\ eLog[2].outcome.value.articleid = JStr(<<id>>)
        /\ ReturnedAt(3, "delete", id)
        /\ eLog[3].outcome.value.success
        /\ eLog[4].call = Call("get", id, JUndef, JUndef)

----------------------------------------------------------------------------
(* Mock fallback generator *)

\* getMockArticle(id); its date, new Date().toISOString(), is recorded as
\* "now".
getMockArticle(id) ==
    [source      |-> "mock",
     articleid   |-> id,
     title       |-> <<"Test Article ", id>>,
     subtitle    |-> <<"This is a mock article for development purposes">>,
     images      |-> <<"https://via.placeholder.com/800x400?text=Mock+Image">>,
     subtopics   |-> <<"First Section", "Second Section">>,
     subcontent  |-> <<"This is the content of the first section. It's just mock data used when the API is unavailable.",
                       "This is the content of the second section. In a real application, this would be replaced with actual article content.">>,
     author      |-> <<"Test Author">>,
     designation |-> <<"Developer">>,
     keywords    |-> <<"test", "mock", "development">>,
     date        |-> "now",
     status      |-> "draft"]

\* C21: the fallback record a getArticleById call returns for id is the
\* record getMockArticle builds for id: the same articleid, title, subtitle,
\* placeholder image, two subtopics and two subcontents, and status draft.
\* getArticleById builds its own record inline: another title, no image,
\* one section.
C21_FallbackIsGenerated ==
    (gPc = "done" /\ gOutcome.kind = "return"
                  /\ gOutcome.article.source = "mock")
        => /\ \A k \in {"articleid", "title", "subtitle", "images",
                        "subtopics", "subcontent", "status"} :
                    gOutcome.article[k] = getMockArticle(gId)[k]
           /\ Len(gOutcome.article.subtopics) = Len(gOutcome.article.subcontent)
           /\ Len(gOutcome.article.subtopics) = Len(getMockArticle(gId).subtopics)

----------------------------------------------------------------------------
(* The edit form (EditArticle) *)

\* The sections the model lets the form grow to.
MaxSections == 2

\* user?.name: the User of the auth context has an id, a username and an
\* email, and no name.
UserName == JUndef

\* String.prototype.trim on fragments, " " being white space.
RECURSIVE TrimStart(_)
TrimStart(s) ==
    IF s # <<>> /\ Head(s) = " " THEN TrimStart(Tail(s)) ELSE s

RECURSIVE TrimEnd(_)
TrimEnd(s) ==
    IF s # <<>> /\ s[Len(s)] = " "
    THEN TrimEnd(SubSeq(s, 1, Len(s) - 1))
    ELSE s

Trim(s) == TrimEnd(TrimStart(s))

\* useState<ArticleForm>({ title: "", ..., currentKeyword: "" })
InitialForm ==
    [title          |-> JStr(<<>>),
     subtitle       |-> JStr(<<>>),
     images         |-> JArr(<<>>),
     subtopics      |-> JArr(<<>>),
     subcontent     |-> JArr(<<>>),
     author         |-> OrElse(UserName, JStr(<<>>)),
     designation    |-> JStr(<<>>),
     keywords       |-> JArr(<<>>),
     status         |-> JStr(<<"draft">>),
     currentKeyword |-> JStr(<<>>)]

\* The setFormData of the load effect.
LoadedForm(article) ==
    [title          |-> OrElse(article.title, JStr(<<>>)),
     subtitle       |-> OrElse(article.subtitle, JStr(<<>>)),
     images         |-> ArrayOrEmpty(article.images),
     subtopics      |-> ArrayOrEmpty(article.subtopics),
     subcontent     |-> ArrayOrEmpty(article.subcontent),
     author         |-> OrElse(OrElse(article.author, UserName), JStr(<<>>)),
     designation    |-> OrElse(article.designation, JStr(<<>>)),
     keywords       |-> ArrayOrEmpty(article.keywords),
     status         |-> OrElse(article.status, JStr(<<"draft">>)),
     currentKeyword |-> JStr(<<>>)]

\* The articles getArticleById resolves with: what the server answers for
\* the documents POST /api/articles stores.
FetchedArticles ==
    {DocJson(NewArticle(b, ClientInstant)) :
        b \in {BaseBody("A1"), UnpairedBody, RepeatedBody}}

\* const articleData: CreateArticleDTO = { title: formData.title, ... }
PayloadKeys == (TextFields \cup ArrayFields \cup {"status"}) \ {"articleid"}
Payload(form) == [k \in PayloadKeys |-> form[k]]
NoPayload == [k \in PayloadKeys |-> JUndef]

\* a.filter((_, i) => i !== index), positions counted from 1.
WithoutIndex(a, index) ==
    [j \in 1..(Len(a) - 1) |-> IF j < index THEN a[j] ELSE a[j + 1]]

\* const copy = [...a]; copy[index] = value: a position past the end
\* lengthens the copy, the positions between left as holes.
WithIndex(a, index, value) ==
    [j \in 1..(IF index > Len(a) THEN index ELSE Len(a)) |->
        IF j = index THEN value
        ELSE IF j <= Len(a) THEN a[j]
        ELSE JUndef]

\* a.filter(keyword => keyword !== keywordToRemove)
RECURSIVE WithoutValue(_, _)
WithoutValue(a, v) ==
    IF a = <<>> THEN <<>>
    ELSE IF Head(a) = v THEN WithoutValue(Tail(a), v)
    ELSE <<Head(a)>> \o WithoutValue(Tail(a), v)

\* a.includes(v)
ArrayIncludes(a, v) == \E i \in 1..Len(a) : a[i] = v

\* What the user types into a section's inputs, into the required text
\* inputs and into the keyword input.
SectionTexts == {JStr(<<>>), JStr(<<"s">>)}
RequiredInputs == {"title", "subtitle", "author", "designation"}
RequiredTexts ==
    {<<"title", JStr(<<>>)>>, <<"title", JStr(<<"x">>)>>,
     <<"subtitle", JStr(<<"x">>)>>, <<"author", JStr(<<"x">>)>>,
     <<"designation", JStr(<<"x">>)>>}
KeywordTexts == {JStr(<<" ">>), JStr(<<" ", "k", " ">>), JStr(<<"K">>)}

\* The route renders the page: /edit/:id starts the load, the route
\* without :id shows the empty form.
FormMount ==
    /\ fPc = "unmounted"
    /\ \E id \in {NoArticleId, "A1"} :
        /\ fArticleId' = id
        /\ fPc' = IF id = NoArticleId THEN "ready" ELSE "fetching"
    /\ UNCHANGED <<fForm, fPayload>>
    /\ UNCHANGED fRest

\* getArticleById(articleId).then(...).catch(...)
FormLoadSettles ==
    /\ fPc = "fetching"
    /\ \/ \E article \in FetchedArticles : fForm' = LoadedForm(article)
       \/ fForm' = fForm       \* the catch: a toast, the form as it was
    /\ fPc' = "ready"
    /\ UNCHANGED <<fArticleId, fPayload>>
    /\ UNCHANGED fRest

\* An edit of the rendered form.  Edits made while a save is in flight are
\* left out: the request carries the payload built before it was sent.
FormEdit(form) ==
    /\ fPc = "ready"
    /\ fForm' = form
    /\ UNCHANGED <<fPc, fArticleId, fPayload>>
    /\ UNCHANGED fRest

addContentSection ==
    /\ Len(fForm.subtopics.a) < MaxSections
    /\ FormEdit([fForm EXCEPT
            !.subtopics = JArr(Append(@.a, JStr(<<>>))),
            !.subcontent = JArr(Append(@.a, JStr(<<>>)))])

\* The button of a rendered section: there is one per subtopic.
removeContentSection ==
    \E index \in 1..Len(fForm.subtopics.a) :
        FormEdit([fForm EXCEPT
            !.subtopics = JArr(WithoutIndex(@.a, index)),
            !.subcontent = JArr(IF index <= Len(@.a)
                                THEN WithoutIndex(@.a, index) ELSE @.a)])

updateSubtopic ==
    \E index \in 1..Len(fForm.subtopics.a), value \in SectionTexts :
        FormEdit([fForm EXCEPT
            !.subtopics = JArr(WithIndex(@.a, index, value))])

updateSubcontent ==
    \E index \in 1..Len(fForm.subtopics.a), value \in SectionTexts :
        FormEdit([fForm EXCEPT
            !.subcontent = JArr(WithIndex(@.a, index, value))])

handleInputChange ==
    \/ \E typed \in RequiredTexts :
            FormEdit([fForm EXCEPT ![typed[1]] = typed[2]])
    \/ \E value \in KeywordTexts :
            FormEdit([fForm EXCEPT !.currentKeyword = value])

addKeyword ==
    FormEdit(IF /\ Trim(fForm.currentKeyword.s) # <<>>
                /\ ~ArrayIncludes(fForm.keywords.a,
                                  JStr(Trim(fForm.currentKeyword.s)))
             THEN [fForm EXCEPT
                     !.keywords =
                         JArr(Append(@.a, JStr(Trim(fForm.currentKeyword.s)))),
                     !.currentKeyword = JStr(<<>>)]
             ELSE fForm)

\* The button of a rendered keyword.
removeKeyword ==
    \E i \in 1..Len(fForm.keywords.a) :
        FormEdit([fForm EXCEPT
            !.keywords = JArr(WithoutValue(@.a, fForm.keywords.a[i]))])

\* handleSubmit up to the await of saveArticle; the button is disabled
\* while isLoading.
handleSubmit ==
    /\ fPc = "ready"
    /\ IF \/ \E k \in RequiredInputs : ~Truthy(fForm[k])
          \/ Len(fForm.subtopics.a) = 0
          \/ Len(fForm.subcontent.a) = 0
       THEN UNCHANGED <<fPc, fPayload>>     \* a toast and return
       ELSE /\ fPayload' = Payload(fForm)
            /\ fPc' = "saving"
    /\ UNCHANGED <<fArticleId, fForm>>
    /\ UNCHANGED fRest

\* saveArticle settles: the toast and navigate("/dashboard"), which
\* unmounts the page and discards its state, or the catch.
FormSaveSettles ==
    /\ fPc = "saving"
    /\ \/ /\ fPc' = "left"
          /\ fForm' = InitialForm
       \/ /\ fPc' = "ready"
          /\ fForm' = fForm
    /\ fPayload' = NoPayload
    /\ UNCHANGED fArticleId
    /\ UNCHANGED fRest

InitEditForm ==
    /\ fPc = "unmounted"
    /\ fArticleId = NoArticleId
    /\ fForm = InitialForm
    /\ fPayload = NoPayload

NextEditForm ==
    \/ FormMount
    \/ FormLoadSettles
    \/ addContentSection
    \/ removeContentSection
    \/ updateSubtopic
    \/ updateSubcontent
    \/ handleInputChange
    \/ addKeyword
    \/ removeKeyword
    \/ handleSubmit
    \/ FormSaveSettles

----------------------------------------------------------------------------
(* Claims about the edit form *)

\* An article's or a payload's sections come in pairs.
Paired(article) == Len(article.subtopics.a) = Len(article.subcontent.a)

\* C22: every article in the store, and every payload the edit form
\* submits, has as many subtopics as subcontents.
C22_SectionsPaired ==
    /\ \A i \in 1..Len(aStore) : Paired(aStore[i])
    /\ fPc = "saving" => Paired(fPayload)

NoDuplicates(a) ==
    \A i, j \in 1..Len(a) : a[i] = a[j] => i = j

\* C23: the keywords of the edit form hold no keyword twice.
C23_KeywordsDistinct == NoDuplicates(fForm.keywords.a)

----------------------------------------------------------------------------
(* Claims about the list views' status change and fallback rows *)

\* C24: the step that ends a status change rewrites the status of exactly
\* the rows with the given articleid when updateArticleStatus returned, and
\* leaves every row as it was and shows an error notification when it threw;
\* the view, its error and its loading flag stay as they were.
C24_StatusChangeFrame ==
    [][(lPc = "changing" /\ lPc' = "ready") =>
          /\ Len(lArticles') = Len(lArticles)
          /\ \A i \in 1..Len(lArticles) :
                /\ lArticles'[i].articleid = lArticles[i].articleid
                /\ lArticles'[i].status =
                      IF sOutcome.kind = "return"
                            /\ lArticles[i].articleid = lId
                      THEN lStatus
                      ELSE lArticles[i].status
          /\ sOutcome.kind = "return" => lNotification'.type = "success"
          /\ sOutcome.kind = "throw" => lNotification'.type = "error"
          /\ UNCHANGED <<lView, lError, lLoading>>]_vars

\* A status change of one of two rows has succeeded: the row shows the new
\* status, the other row the status it had.
C24_Witness ==
    /\ lPc = "ready"
    /\ lNotification =
          Notification(<<"Article status updated to ", "archived">>, "success")
    /\ Len(lArticles) = 2
    /\ \E i, j \in 1..2 :
          /\ lArticles[i].status = "archived"
          /\ lArticles[j].status = "draft"

\* C25: once the loading of a failed list fetch has ended, the list holds
\* the example rows, is not empty, and the view shows those rows.
C25_FallbackRowsShown ==
    (lPc = "ready" /\ lError.set /\ lLast = NoAction) =>
        /\ lArticles = FallbackRows(lView)
        /\ lArticles # <<>>
        /\ ShownRows = lArticles

----------------------------------------------------------------------------
(* Claims about the race of getArticleById *)

\* C26: a getArticleById call has its one outcome once the request and the
\* timer are both through: when the timer has fired and the response's body
\* will never arrive, nothing is left to happen and the call is done.
C26_RaceGivesOutcome ==
    (gFired /\ gFetch.kind = "response" /\ gFetch.body = "stalled") =>
        gPc = "done"

\* C30: every getArticleById call completes, whatever the server does.
C30_GetCompletes == (gPc = "racing") ~> (gPc = "done")

----------------------------------------------------------------------------
(* Claims about racing requests *)

\* C27: of the creates of one articleid, the one that is not persisted is
\* answered 400: a create is answered 200 or 400 and nothing else.
C27_RacingCreateAnswered400 ==
    \A s \in AnsweredSlots({"create"}) :
        aReqs[s].answer.status \in {200, 400}

\* C28: a PUT or PATCH that is answered 200 carries the updated article;
\* when the article is gone by the time the write is applied, the answer is
\* not a 200 with an empty body.
C28_WriteAnswerCarriesArticle ==
    \A s \in AnsweredSlots({"update", "patch"}) :
        aReqs[s].answer.status = 200 =>
            aReqs[s].answer.body.kind = "article"

----------------------------------------------------------------------------
(* Claims about the result of deleteArticle *)

\* C29: a completed deleteArticle has success = true exactly when the DELETE
\* was answered 2xx or the alternate POST was sent and answered 2xx;
\* otherwise its message is the network error when the DELETE faulted, and
\* carries the status of the DELETE's answer when it was answered.
C29_DeleteResult ==
    dPc = "done" =>
        /\ dOutcome.success <=>
              \/ dResponse.kind = "response" /\ Ok(dResponse)
              \/ /\ AltRequestsSent = 1
                 /\ dAltResult.kind = "response" /\ Ok(dAltResult)
        /\ ~dOutcome.success =>
              IF dResponse.kind = "fault"
              THEN Includes(dOutcome.message, <<"Network error: ">>)
              ELSE Includes(dOutcome.message,
                            <<"Server error (", ToString(dResponse.status),
                              "): ">>)

----------------------------------------------------------------------------

\* No call of the service has been made.
IdleCalls ==
    /\ InitUpdate
    /\ InitGet
    /\ InitDelete
    /\ InitStatus

Init ==
    /\ InitEnv
    /\ IdleCalls
    /\ IdleNormalize
    /\ InitListView
    /\ InitStore
    /\ InitSession
    /\ InitEditForm

\* normalizeArticleData reads neither the calls' state nor the build
\* configuration: its inputs are drawn with the configuration fixed.
InitNormalizeInputs ==
    /\ envDEV = TRUE
    /\ envMODE = "development"
    /\ IdleCalls
    /\ InitNormalize
    /\ InitListView
    /\ InitStore
    /\ InitSession
    /\ InitEditForm

\* The server alone: no client of the model runs, and the build
\* configuration of the client is fixed.
InitServer ==
    /\ envDEV = TRUE
    /\ envMODE = "development"
    /\ IdleCalls
    /\ IdleNormalize
    /\ InitListView
    /\ InitStore
    /\ InitSession
    /\ InitEditForm

\* The edit form alone: no request reaches the server.
InitFormAlone ==
    /\ envDEV = TRUE
    /\ envMODE = "development"
    /\ IdleCalls
    /\ IdleNormalize
    /\ InitListView
    /\ EmptyStore
    /\ aReqs = <<FreeSlot>>
    /\ aTraffic = {}
    /\ InitSession
    /\ InitEditForm

InitServerRace ==
    /\ envDEV = TRUE
    /\ envMODE = "development"
    /\ IdleCalls
    /\ IdleNormalize
    /\ InitListView
    /\ InitStoreRace
    /\ InitSession
    /\ InitEditForm

Next ==
    \/ NextUpdate
    \/ NextGet
    \/ NextDelete
    \/ NextStatus
    \/ NextNormalize
    \/ NextListView
    \/ NextStore
    \/ NextSession
    \/ NextEditForm

\* All operations, interleaved.  The calls share no state, so the claims
\* are checked under the specification of the operation they are about.
Spec == Init /\ [][Next]_vars

SpecUpdate == Init /\ [][NextUpdate]_vars

SpecGet == Init /\ [][NextGet]_vars

SpecDelete == Init /\ [][NextDelete]_vars

SpecStatus == Init /\ [][NextStatus]_vars

SpecNormalize == InitNormalizeInputs /\ [][NextNormalize]_vars

\* The list views read no build configuration.
SpecListView == InitServer /\ [][NextListView]_vars

SpecStore == InitServer /\ [][NextStore]_vars

SpecStoreRace == InitServerRace /\ [][NextStore]_vars

SpecSession == Init /\ [][NextSession]_vars

SpecEditForm == InitFormAlone /\ [][NextEditForm]_vars

\* The browser fires a started timer.
SpecGetFair == SpecGet /\ WF_vars(GetTimerFires)

\* The browser also settles response.json() once the body has arrived.
SpecGetLive == SpecGetFair /\ WF_vars(GetJsonSettles)

====
